---- MODULE Spec2Model ----
(***************************************************************************)
(* A model of the constraint solver driver of packages/constraint-solver   *)
(* (solver.js): CS.Solver, its analysis passes, the clause generation, the *)
(* ordered minimizations, the version pin, the post-solve diagnostics and  *)
(* the enumeration of all answers.                                         *)
(*                                                                         *)
(* Atoms of the boolean model are strings, as in the source: a package     *)
(* name, a package version "<p> <v>", or a conflict variable               *)
(* "constraint#<i>".  An assignment is the set of its true atoms.  The     *)
(* Logic backend is represented by the set of assignments that satisfy     *)
(* everything required of it so far; solve and minimize may return any     *)
(* assignment of that set (of minimal cost, for minimize).                 *)
(***************************************************************************)
EXTENDS Integers, Sequences, FiniteSets, TLC

VARIABLES
    input,              \* self.input (CS.Input), fixed during a run
    options,            \* the options of getSolution: [allAnswers]
    pc,                 \* position in the constructor / getSolution
    allowedVersions,    \* self.allowedVersions: sequence of [package, versions]
    analysis,           \* self.analysis
    logic,              \* self.logic: [created, vars, models, pins]
    solution,           \* self.solution: the set of true atoms
    steps,              \* self.steps, in the order they were minimized
    todo,               \* the steps a running minimize([...]) still has to do
    previousRootSteps,  \* the five previous_root_* steps between l.528 and l.568
    errors,             \* self.errors
    outcome,            \* what the call ended with: [kind, message]
    result,             \* the result object of getSolution
    pinMap              \* the version map decoded at the pin (l.588)

vars == <<input, options, pc, allowedVersions, analysis, logic, solution,
          steps, todo, previousRootSteps, errors, outcome, result, pinMap>>

-----------------------------------------------------------------------------
(* Bounds of the model *)

\* the largest number of root dependencies of an input
MaxRoots == 2

\* the largest number of packages an input marks for upgrade
MaxUpgrade == 1

\* Step.optimum before the step is minimized (null in the source)
NoOptimum == -1

-----------------------------------------------------------------------------
(* Sequence helpers (underscore's _.each, _.filter, _.map, _.has) *)

Range(s) == {s[i] : i \in DOMAIN s}

RECURSIVE SelectSeqBy(_, _)
\* _.filter over a sequence with a set as test
SelectSeqBy(s, keep) ==
    IF s = <<>> THEN <<>>
    ELSE IF Head(s) \in keep THEN <<Head(s)>> \o SelectSeqBy(Tail(s), keep)
         ELSE SelectSeqBy(Tail(s), keep)

RECURSIVE Flatten(_)
Flatten(ss) == IF ss = <<>> THEN <<>> ELSE Head(ss) \o Flatten(Tail(ss))

\* the sequences without repetition over S of length lo..hi
DistinctSeqs(S, lo, hi) ==
    {s \in UNION {[1..n -> S] : n \in lo..hi} :
        \A i, j \in DOMAIN s : i # j => s[i] # s[j]}

-----------------------------------------------------------------------------
(* Versions and version constraints: PackageVersion (PV) *)

Versions == {"1.0.0-beta", "1.0.0", "1.1.0", "2.0.0"}

\* PV.parse: the parts of a version string and its place in the version order
VersionInfo(v) ==
    CASE v = "1.0.0-beta" -> [major |-> 1, minor |-> 0, patch |-> 0, order |-> 1]
      [] v = "1.0.0"      -> [major |-> 1, minor |-> 0, patch |-> 0, order |-> 2]
      [] v = "1.1.0"      -> [major |-> 1, minor |-> 1, patch |-> 0, order |-> 3]
      [] v = "2.0.0"      -> [major |-> 2, minor |-> 0, patch |-> 0, order |-> 4]

\* /-/.test(v)
IsPrerelease(v) == v = "1.0.0-beta"

\* PV.lessThan
LessThan(v1, v2) == VersionInfo(v1).order < VersionInfo(v2).order

\* PV.VersionConstraint values: any version, exactly v, at least v
AnyVersion == [raw |-> "", op |-> "any", v |-> ""]
Exactly(v) == [raw |-> "=" \o v, op |-> "eq", v |-> v]
AtLeast(v) == [raw |-> ">=" \o v, op |-> "ge", v |-> v]

\* CS.isConstraintSatisfied(package, vConstraint, version)
isConstraintSatisfied(p, vc, v) ==
    CASE vc.op = "any" -> TRUE
      [] vc.op = "eq"  -> v = vc.v
      [] vc.op = "ge"  -> ~LessThan(v, vc.v)

\* CS.Dependency
Dep(p, vc, weak) == [package |-> p, vc |-> vc, isWeak |-> weak]

\* var pvVar = function (p, v)
pvVar(p, v) == p \o " " \o v

\* CS.PackageAndVersion
PackageAndVersion(p, v) == [package |-> p, version |-> v]

-----------------------------------------------------------------------------
(* Catalogs: CS.CatalogCache contents the inputs are drawn from.            *)
(* versions: package -> sorted version list; deps: "<p> <v>" -> dependencies *)

\* S6 of the spec, extended: A, E and F constrain B weakly (nothing requires
\* B unless B is a root), B 1.0.0 requires D, E requires a D that does not
\* exist.
CatalogWeak ==
    [versions |-> [p \in {"A", "B", "D", "E", "F"} |->
                     CASE p = "A" -> <<"1.0.0">>
                       [] p = "B" -> <<"1.0.0", "1.1.0">>
                       [] p = "D" -> <<"1.0.0">>
                       [] p = "E" -> <<"1.0.0">>
                       [] p = "F" -> <<"1.0.0">>],
     deps |-> [pv \in {"A 1.0.0", "B 1.0.0", "E 1.0.0", "F 1.0.0"} |->
                 CASE pv = "A 1.0.0" -> <<Dep("B", Exactly("1.0.0"), TRUE)>>
                   [] pv = "B 1.0.0" -> <<Dep("D", AnyVersion, FALSE)>>
                   [] pv = "E 1.0.0" -> <<Dep("D", Exactly("2.0.0"), FALSE),
                                          Dep("B", Exactly("1.1.0"), TRUE)>>
                   [] pv = "F 1.0.0" -> <<Dep("B", Exactly("1.1.0"), TRUE)>>]]

\* Two roots that cannot both be newest; the newest A brings in C.
CatalogTie ==
    [versions |-> [p \in {"A", "B", "C"} |->
                     CASE p = "A" -> <<"1.0.0", "1.1.0">>
                       [] p = "B" -> <<"1.0.0", "1.1.0">>
                       [] p = "C" -> <<"1.0.0">>],
     deps |-> [pv \in {"A 1.1.0", "B 1.1.0"} |->
                 CASE pv = "A 1.1.0" -> <<Dep("C", AnyVersion, FALSE)>>
                   [] pv = "B 1.1.0" -> <<Dep("A", Exactly("1.0.0"), FALSE)>>]]

\* S5 of the spec, extended: X needs the next major of A; X and A 2.0.0
\* constrain W weakly.
CatalogBreaking ==
    [versions |-> [p \in {"A", "W", "X"} |->
                     CASE p = "A" -> <<"1.0.0", "2.0.0">>
                       [] p = "W" -> <<"1.0.0", "1.1.0">>
                       [] p = "X" -> <<"1.0.0">>],
     deps |-> [pv \in {"A 2.0.0", "X 1.0.0"} |->
                 CASE pv = "A 2.0.0" -> <<Dep("W", Exactly("1.1.0"), TRUE)>>
                   [] pv = "X 1.0.0" -> <<Dep("A", AtLeast("2.0.0"), FALSE),
                                          Dep("W", Exactly("1.0.0"), TRUE)>>]]

\* S4 of the spec, extended: P has a prerelease, R needs the prerelease,
\* Q needs the unknown package U, P 1.0.0 mentions the unknown U2 weakly,
\* S needs Q.
CatalogPre ==
    [versions |-> [p \in {"P", "Q", "R", "S", "V"} |->
                     CASE p = "P" -> <<"1.0.0-beta", "1.0.0">>
                       [] p = "Q" -> <<"1.0.0">>
                       [] p = "R" -> <<"1.0.0">>
                       [] p = "S" -> <<"1.0.0">>
                       [] p = "V" -> <<"1.0.0", "2.0.0">>],
     deps |-> [pv \in {"P 1.0.0", "Q 1.0.0", "R 1.0.0", "S 1.0.0",
                       "V 2.0.0"} |->
                 CASE pv = "P 1.0.0" -> <<Dep("U2", AnyVersion, TRUE)>>
                   [] pv = "Q 1.0.0" -> <<Dep("U", AnyVersion, FALSE)>>
                   [] pv = "R 1.0.0" -> <<Dep("P", Exactly("1.0.0-beta"), FALSE)>>
                   [] pv = "S 1.0.0" -> <<Dep("Q", AnyVersion, FALSE)>>
                   [] pv = "V 2.0.0" -> <<Dep("U", AnyVersion, FALSE)>>]]

\* Two roots over a shared package: R1 needs X, R2 needs Y and mentions X
\* weakly, Y needs X, X needs a T that does not exist, T mentions X weakly.
CatalogPaths ==
    [versions |-> [p \in {"R1", "R2", "T", "X", "Y"} |-> <<"1.0.0">>],
     deps |-> [pv \in {"R1 1.0.0", "R2 1.0.0", "T 1.0.0", "X 1.0.0",
                       "Y 1.0.0"} |->
                 CASE pv = "R1 1.0.0" -> <<Dep("X", AnyVersion, FALSE)>>
                   [] pv = "R2 1.0.0" -> <<Dep("Y", AnyVersion, FALSE),
                                           Dep("X", AnyVersion, TRUE)>>
                   [] pv = "T 1.0.0" -> <<Dep("X", AnyVersion, TRUE)>>
                   [] pv = "X 1.0.0" -> <<Dep("T", Exactly("2.0.0"), FALSE)>>
                   [] pv = "Y 1.0.0" -> <<Dep("X", AnyVersion, FALSE)>>]]

Catalogs ==
    [c \in {"weak", "tie", "breaking", "pre", "paths"} |->
        CASE c = "weak"     -> CatalogWeak
          [] c = "tie"      -> CatalogTie
          [] c = "breaking" -> CatalogBreaking
          [] c = "pre"      -> CatalogPre
          [] c = "paths"    -> CatalogPaths]

\* every package name of the model, known or not
AllPackages ==
    {"A", "B", "C", "D", "E", "F", "P", "Q", "R", "R1", "R2", "S", "T", "U",
     "U2", "V", "W", "X", "Y"}

\* catalogCache.getPackageVersions(p): empty for a package the catalog lacks
getPackageVersions(cache, p) ==
    IF p \in DOMAIN Catalogs[cache].versions
    THEN Catalogs[cache].versions[p] ELSE <<>>

\* catalogCache.getDependencyMap(p, v)
getDependencyMap(cache, p, v) ==
    IF pvVar(p, v) \in DOMAIN Catalogs[cache].deps
    THEN Catalogs[cache].deps[pvVar(p, v)] ELSE <<>>

-----------------------------------------------------------------------------
(* CS.Input *)

isKnownPackage(in, p) == getPackageVersions(in.catalogCache, p) # <<>>
isRootDependency(in, p) == p \in Range(in.dependencies)
isInPreviousSolution(in, p) == p \in DOMAIN in.previousSolution
isUpgrading(in, p) == p \in Range(in.upgrade)

\* a top-level constraint of the input
TopConstraint(p, vc) == [package |-> p, versionConstraint |-> vc]

NoMap == [p \in {} |-> ""]

\* What varies per catalog: root candidates, previous solutions, upgrade
\* candidates, top-level constraint lists, anticipated prereleases and
\* whether all answers are asked for.
Families ==
    [c \in DOMAIN Catalogs |->
        CASE c = "weak" ->
               [roots |-> {"A", "B", "E", "F"},
                previous |-> {NoMap, [p \in {"B"} |-> "1.0.0"]},
                upgrade |-> {},
                constraints |-> {<<>>},
                anticipated |-> {NoMap},
                allow |-> {FALSE},
                allAnswers |-> {FALSE, TRUE}]
          [] c = "tie" ->
               [roots |-> {"A", "B"},
                previous |-> {NoMap, [p \in {"A"} |-> "1.0.0"],
                              [p \in {"A"} |-> "1.1.0"],
                              [p \in {"A", "B"} |-> "1.0.0"]},
                upgrade |-> {"A", "B"},
                constraints |-> {<<>>},
                anticipated |-> {NoMap},
                allow |-> {FALSE},
                allAnswers |-> {FALSE, TRUE}]
          [] c = "breaking" ->
               [roots |-> {"A", "X"},
                previous |-> {NoMap, [p \in {"A"} |-> "1.0.0"]},
                upgrade |-> {"A"},
                constraints |-> {<<>>,
                                 <<TopConstraint("A", Exactly("1.0.0"))>>,
                                 <<TopConstraint("A", AtLeast("2.0.0"))>>,
                                 <<TopConstraint("A", Exactly("1.1.0"))>>,
                                 <<TopConstraint("A", AtLeast("1.0.0")),
                                   TopConstraint("A", Exactly("2.0.0"))>>},
                anticipated |-> {NoMap},
                allow |-> {FALSE, TRUE},
                allAnswers |-> {FALSE}]
          [] c = "pre" ->
               [roots |-> {"P", "Q", "R", "S", "U", "U2", "V"},
                previous |-> {NoMap},
                upgrade |-> {},
                constraints |-> {<<>>, <<TopConstraint("U", Exactly("1.0.0"))>>},
                anticipated |-> {NoMap, [p \in {"P"} |-> {"1.0.0-beta"}]},
                allow |-> {FALSE},
                allAnswers |-> {FALSE}]
          [] c = "paths" ->
               [roots |-> {"R1", "R2"},
                previous |-> {NoMap},
                upgrade |-> {},
                constraints |-> {<<>>},
                anticipated |-> {NoMap},
                allow |-> {FALSE},
                allAnswers |-> {FALSE}]]

InputsOf(c) ==
    {[catalogCache |-> c,
      dependencies |-> deps,
      constraints |-> cons,
      previousSolution |-> prev,
      upgrade |-> up,
      anticipatedPrereleases |-> ant,
      allowIncompatibleUpdate |-> al] :
        deps \in DistinctSeqs(Families[c].roots, 1, MaxRoots),
        cons \in Families[c].constraints,
        prev \in Families[c].previous,
        up \in DistinctSeqs(Families[c].upgrade, 0, MaxUpgrade),
        ant \in Families[c].anticipated,
        al \in Families[c].allow}

-----------------------------------------------------------------------------
(* new CS.Solver(input, options) *)

\* only the first top-level constraint on p filters the versions
FilterVersions_FirstOnly(p, cs, versions) ==
    IF cs = <<>> THEN versions
    ELSE SelectSeqBy(versions,
            {v \in Range(versions) :
                isConstraintSatisfied(p, Head(cs).versionConstraint, v)})

RECURSIVE FilterVersions(_, _, _)
\* l.48-52: versions filtered by each top-level constraint on p in turn
FilterVersions(p, cs, versions) ==
    IF cs = <<>> THEN versions
    ELSE FilterVersions(p, Tail(cs),
            SelectSeqBy(versions,
                {v \in Range(versions) :
                    isConstraintSatisfied(p, Head(cs).versionConstraint, v)}))

RECURSIVE GroupKeys(_, _)
\* the keys of _.groupBy(constraints, 'package'), in order of first occurrence
GroupKeys(cs, seen) ==
    IF cs = <<>> THEN <<>>
    ELSE IF Head(cs).package \in seen THEN GroupKeys(Tail(cs), seen)
         ELSE <<Head(cs).package>> \o
              GroupKeys(Tail(cs), seen \cup {Head(cs).package})

ConstraintsOn(in, p) ==
    SelectSeqBy(in.constraints, {c \in Range(in.constraints) : c.package = p})

\* the packages whose top-level constraints no catalog version satisfies
NoVersionPackages(in) ==
    {p \in Range(GroupKeys(in.constraints, {})) :
        /\ getPackageVersions(in.catalogCache, p) # <<>>
        /\ FilterVersions(p, ConstraintsOn(in, p),
                          getPackageVersions(in.catalogCache, p)) = <<>>}

RECURSIVE AllowedEntries(_, _)
AllowedEntries(in, ps) ==
    IF ps = <<>> THEN <<>>
    ELSE IF getPackageVersions(in.catalogCache, Head(ps)) = <<>>
         THEN AllowedEntries(in, Tail(ps))
         ELSE <<[package |-> Head(ps),
                 versions |-> FilterVersions(Head(ps), ConstraintsOn(in, Head(ps)),
                                  getPackageVersions(in.catalogCache, Head(ps)))]>>
              \o AllowedEntries(in, Tail(ps))

\* CS.Solver.prototype.calculateAllowedVersions, when it does not throw
calculateAllowedVersions(in) == AllowedEntries(in, GroupKeys(in.constraints, {}))

\* the versions of the catalog, unfiltered
getVersions_Catalog(in, allowed, p) == getPackageVersions(in.catalogCache, p)

\* CS.Solver.prototype.getVersions
getVersions(in, allowed, p) ==
    IF \E i \in DOMAIN allowed : allowed[i].package = p
    THEN allowed[CHOOSE i \in DOMAIN allowed : allowed[i].package = p].versions
    ELSE getPackageVersions(in.catalogCache, p)

-----------------------------------------------------------------------------
(* Analysis passes *)

\* analyzeRootDependencies: analysis.unknownRootDeps
unknownRootDepsOf(in) ==
    SelectSeqBy(in.dependencies,
                {p \in Range(in.dependencies) : ~isKnownPackage(in, p)})

RECURSIVE PreviousRootDepVersionsFrom(_, _)
PreviousRootDepVersionsFrom(in, ps) ==
    IF ps = <<>> THEN <<>>
    ELSE (IF /\ isKnownPackage(in, Head(ps))
             /\ isInPreviousSolution(in, Head(ps))
             /\ ~isUpgrading(in, Head(ps))
          THEN <<PackageAndVersion(Head(ps), in.previousSolution[Head(ps)])>>
          ELSE <<>>)
         \o PreviousRootDepVersionsFrom(in, Tail(ps))

\* analyzeRootDependencies: analysis.previousRootDepVersions
previousRootDepVersionsOf(in) == PreviousRootDepVersionsFrom(in, in.dependencies)

\* unknownPackages[p2].push(pv), creating the entry when p2 is new
PushRequirer(unknown, p2, pv) ==
    IF \E i \in DOMAIN unknown : unknown[i].package = p2
    THEN [i \in DOMAIN unknown |->
            IF unknown[i].package = p2
            THEN [unknown[i] EXCEPT !.requirers = Append(@, pv)]
            ELSE unknown[i]]
    ELSE Append(unknown, [package |-> p2, requirers |-> <<pv>>])

RECURSIVE visit(_, _, _, _)
RECURSIVE VisitDeps(_, _, _, _, _)
RECURSIVE VisitVersions(_, _, _, _, _)

RECURSIVE VisitDeps_WeakToo(_, _, _, _, _)
\* weak dependencies are followed like strong ones
VisitDeps_WeakToo(in, allowed, pv, deps, st) ==
    IF deps = <<>> THEN st
    ELSE LET p2 == Head(deps).package
             st1 == IF ~isKnownPackage(in, p2)
                    THEN [st EXCEPT !.unknown = PushRequirer(@, p2, pv)]
                    ELSE IF p2 \notin Range(st.reachable)
                         THEN visit(in, allowed, p2, st)
                         ELSE st
         IN  VisitDeps_WeakToo(in, allowed, pv, Tail(deps), st1)

\* the body of _.each(cache.getDependencyMap(p, v), ...) of visit, l.260-278
VisitDeps(in, allowed, pv, deps, st) ==
    IF deps = <<>> THEN st
    ELSE LET p2 == Head(deps).package
             st1 == IF ~isKnownPackage(in, p2)
                    THEN [st EXCEPT !.unknown = PushRequirer(@, p2, pv)]
                    ELSE IF ~Head(deps).isWeak /\ p2 \notin Range(st.reachable)
                         THEN visit(in, allowed, p2, st)
                         ELSE st
         IN  VisitDeps(in, allowed, pv, Tail(deps), st1)

\* the body of _.each(self.getVersions(p), ...) of visit, l.259-279
VisitVersions(in, allowed, p, versions, st) ==
    IF versions = <<>> THEN st
    ELSE VisitVersions(in, allowed, p, Tail(versions),
            VisitDeps(in, allowed, pvVar(p, Head(versions)),
                      getDependencyMap(in.catalogCache, p, Head(versions)), st))

\* var visit = function (p), l.256-280; st = [reachable, unknown]
visit(in, allowed, p, st) ==
    VisitVersions(in, allowed, p, getVersions(in, allowed, p),
        IF p \in Range(st.reachable) THEN st
        ELSE [st EXCEPT !.reachable = Append(@, p)])

RECURSIVE VisitAll(_, _, _, _)
\* _.each(input.dependencies, visit), l.282
VisitAll(in, allowed, ps, st) ==
    IF ps = <<>> THEN st
    ELSE VisitAll(in, allowed, Tail(ps), visit(in, allowed, Head(ps), st))

\* CS.Solver.prototype.analyzeReachability: [reachable, unknown], the keys of
\* reachablePackages and the entries of unknownPackages in insertion order
analyzeReachability(in, allowed) ==
    VisitAll(in, allowed, in.dependencies, [reachable |-> <<>>, unknown |-> <<>>])

RECURSIVE DepConstraints(_, _, _)
\* l.302-310: the constraints of one package version, not yet numbered
DepConstraints(in, pv, deps) ==
    IF deps = <<>> THEN <<>>
    ELSE (IF isKnownPackage(in, Head(deps).package)
          THEN <<[fromVar |-> pv, toPackage |-> Head(deps).package,
                  vConstraint |-> Head(deps).vc]>>
          ELSE <<>>)
         \o DepConstraints(in, pv, Tail(deps))

RECURSIVE VersionConstraints(_, _, _)
VersionConstraints(in, p, versions) ==
    IF versions = <<>> THEN <<>>
    ELSE DepConstraints(in, pvVar(p, Head(versions)),
                        getDependencyMap(in.catalogCache, p, Head(versions)))
         \o VersionConstraints(in, p, Tail(versions))

RECURSIVE PackageConstraints(_, _, _)
PackageConstraints(in, allowed, ps) ==
    IF ps = <<>> THEN <<>>
    ELSE VersionConstraints(in, Head(ps), getVersions(in, allowed, Head(ps)))
         \o PackageConstraints(in, allowed, Tail(ps))

\* the top-level constraints, fromVar null (the empty string here), l.292-296
TopLevelConstraints(in) ==
    [i \in DOMAIN in.constraints |->
        [fromVar |-> "", toPackage |-> in.constraints[i].package,
         vConstraint |-> in.constraints[i].versionConstraint]]

\* CS.Solver.prototype.analyzeConstraints: CS.Solver.Constraint values, each
\* with conflictVar "constraint#" + its index
analyzeConstraints(in, allowed, reachable) ==
    LET cs == TopLevelConstraints(in) \o PackageConstraints(in, allowed, reachable)
    IN  [i \in DOMAIN cs |->
            [fromVar |-> cs[i].fromVar, toPackage |-> cs[i].toPackage,
             vConstraint |-> cs[i].vConstraint,
             conflictVar |-> "constraint#" \o ToString(i - 1)]]

\* CS.Solver.prototype.getAllVersionVars
getAllVersionVars(in, allowed, p) ==
    LET vs == getVersions(in, allowed, p)
    IN  [i \in DOMAIN vs |-> pvVar(p, vs[i])]

-----------------------------------------------------------------------------
(* Logic formulas, as far as the driver builds them.  A formula is          *)
(* [kind, pos, neg]: "or" is the clause of the atoms pos and the negated    *)
(* atoms neg; "atMostOne" is over pos; "equiv" says the one atom of neg     *)
(* holds exactly if some atom of pos does; "true" is Logic.TRUE.            *)

LogicTRUE == [kind |-> "true", pos |-> {}, neg |-> {}]
LogicVar(x) == [kind |-> "or", pos |-> {x}, neg |-> {}]
LogicAtMostOne(xs) == [kind |-> "atMostOne", pos |-> Range(xs), neg |-> {}]
LogicEquivOr(p, xs) == [kind |-> "equiv", pos |-> Range(xs), neg |-> {p}]
LogicImplies(a, b) == [kind |-> "or", pos |-> {b}, neg |-> {a}]

\* Logic.or(conflictVar, fromVar ? Logic.not(fromVar) : [], formula), l.483
LogicOrConstraint(conflictVar, fromVar, formula) ==
    IF formula.kind = "true" THEN LogicTRUE
    ELSE [kind |-> "or",
          pos |-> {conflictVar} \cup formula.pos,
          neg |-> (IF fromVar = "" THEN {} ELSE {fromVar}) \cup formula.neg]

\* solution.evaluate(formula)
Holds(f, m) ==
    CASE f.kind = "true"      -> TRUE
      [] f.kind = "or"        -> (f.pos \cap m # {}) \/ (f.neg \ m # {})
      [] f.kind = "atMostOne" -> Cardinality(f.pos \cap m) <= 1
      [] f.kind = "equiv"     -> (f.neg \subseteq m) <=> (f.pos \cap m # {})

VarsOf(f) == f.pos \cup f.neg

\* var getOkVersions = function (toPackage, vConstraint, targetVersions)
getOkVersions(toPackage, vConstraint, targetVersions) ==
    LET ok == SelectSeqBy(targetVersions,
                {v \in Range(targetVersions) :
                    isConstraintSatisfied(toPackage, vConstraint, v)})
    IN  [i \in DOMAIN ok |-> pvVar(toPackage, ok[i])]

\* var _getConstraintFormula = function (toPackage, vConstraint)
getConstraintFormula(in, allowed, toPackage, vConstraint) ==
    LET targetVersions == getVersions(in, allowed, toPackage)
        okVersions == getOkVersions(toPackage, vConstraint, targetVersions)
    IN  IF Len(okVersions) = Len(targetVersions) THEN LogicTRUE
        ELSE [kind |-> "or", pos |-> Range(okVersions), neg |-> {toPackage}]

\* only the first root dependency is required
RootClauses_OnlyFirst(in) ==
    {LogicVar(in.dependencies[i]) : i \in DOMAIN in.dependencies \cap {1}}

\* l.446-449: require root dependencies
RootClauses(in) == {LogicVar(p) : p \in Range(in.dependencies)}

\* l.451-459: at most one version of a reachable package, and the package
\* atom is equivalent to the disjunction of its version atoms
VersionClauses(in, allowed, reachable) ==
    UNION {{LogicAtMostOne(getAllVersionVars(in, allowed, p)),
            LogicEquivOr(p, getAllVersionVars(in, allowed, p))} :
           p \in Range(reachable)}

\* the requirement extended to weak dependencies
DependencyClauses_WeakToo(in, allowed, reachable) ==
    {LogicImplies(pvVar(p, v), dep.package) :
        <<p, v, dep>> \in
            {<<p, v, dep>> \in Range(reachable) \X Versions \X
                UNION {Range(Catalogs[in.catalogCache].deps[k]) :
                       k \in DOMAIN Catalogs[in.catalogCache].deps} :
                /\ v \in Range(getVersions(in, allowed, p))
                /\ dep \in Range(getDependencyMap(in.catalogCache, p, v))}}

\* l.461-472: strong dependency requirements
DependencyClauses(in, allowed, reachable) ==
    {LogicImplies(pvVar(p, v), dep.package) :
        <<p, v, dep>> \in
            {<<p, v, dep>> \in Range(reachable) \X Versions \X
                UNION {Range(Catalogs[in.catalogCache].deps[k]) :
                       k \in DOMAIN Catalogs[in.catalogCache].deps} :
                /\ v \in Range(getVersions(in, allowed, p))
                /\ dep \in Range(getDependencyMap(in.catalogCache, p, v))
                /\ ~dep.isWeak}}

\* the constraints enforced: no conflictVar may be true
ConstraintClauses_Enforced(in, allowed, constraints) ==
    {LogicOrConstraint(c.conflictVar, c.fromVar,
        getConstraintFormula(in, allowed, c.toPackage, c.vConstraint)) :
     c \in Range(constraints)}
    \cup {[kind |-> "or", pos |-> {}, neg |-> {c.conflictVar}] :
          c \in Range(constraints)}

\* l.474-486: the constraints, each waivable by its conflictVar
ConstraintClauses(in, allowed, constraints) ==
    {LogicOrConstraint(c.conflictVar, c.fromVar,
        getConstraintFormula(in, allowed, c.toPackage, c.vConstraint)) :
     c \in Range(constraints)}

\* everything getSolution requires before the first solve, l.446-486
Clauses(in, allowed, an) ==
    RootClauses(in) \cup VersionClauses(in, allowed, an.reachablePackages)
    \cup DependencyClauses(in, allowed, an.reachablePackages)
    \cup ConstraintClauses(in, allowed, an.constraints)

\* the assignments over the atoms of fs that satisfy every formula of fs
ModelsOf(fs) ==
    {m \in SUBSET (UNION {VarsOf(f) : f \in fs}) : \A f \in fs : Holds(f, m)}

\* the backend learns of the atoms xs: they are unconstrained in every
\* assignment it still allows
RECURSIVE Extend(_, _)
Extend(models, xs) ==
    IF xs = {} THEN models
    ELSE LET x == CHOOSE y \in xs : TRUE
         IN  Extend(models \cup {m \cup {x} : m \in models}, xs \ {x})

-----------------------------------------------------------------------------
(* CS.Solver.Step *)

\* new CS.Solver.Step(name): terms and weights are arrays
Step(name) ==
    [name |-> name, terms |-> <<>>, weights |-> <<>>, scalar |-> FALSE,
     optimum |-> NoOptimum]

\* new CS.Solver.Step(name, terms, weight) with a single weight for all
\* terms, as minimize(stepName, costTerms) builds it (weight 1), l.160
ScalarStep(name, terms, weight) ==
    [name |-> name, terms |-> terms, weights |-> <<weight>>, scalar |-> TRUE,
     optimum |-> NoOptimum]

\* CS.Solver.Step.prototype.addTerm with a weight given: a zero weight is
\* skipped; a step with a single weight keeps it
addTerm(step, term, weight) ==
    IF weight = 0 THEN step
    ELSE [step EXCEPT !.terms = Append(@, term),
                      !.weights = IF step.scalar THEN @ ELSE Append(@, weight)]

WeightOf(step, i) == IF step.scalar THEN step.weights[1] ELSE step.weights[i]

RECURSIVE WeightedSumFrom(_, _, _)
WeightedSumFrom(step, m, i) ==
    IF i > Len(step.terms) THEN 0
    ELSE (IF step.terms[i] \in m THEN WeightOf(step, i) ELSE 0)
         + WeightedSumFrom(step, m, i + 1)

\* solution.getWeightedSum(step.terms, step.weights)
getWeightedSum(step, m) == WeightedSumFrom(step, m, 1)

RECURSIVE AddVersionCosts(_, _, _, _, _)
\* the inner loop of addCostsToSteps, l.333-335
AddVersionCosts(step, package, versions, costList, i) ==
    IF i > Len(versions) THEN step
    ELSE AddVersionCosts(addTerm(step, pvVar(package, versions[i]), costList[i]),
                         package, versions, costList, i + 1)

\* var addCostsToSteps = function (package, versions, costs, steps)
addCostsToSteps(package, versions, costs, stepList) ==
    [j \in DOMAIN stepList |->
        AddVersionCosts(stepList[j], package, versions, costs[j], 1)]

-----------------------------------------------------------------------------
(* CS.VersionPricer *)

\* how many distinct values of part k, among the versions of ctx that agree
\* with v on the higher parts, lie above (older = TRUE) or below v's
PartRank(k, v, ctx, older) ==
    LET i == VersionInfo(v)
        Above(a, b) == IF older THEN a > b ELSE a < b
    IN  CASE k = "major" ->
               Cardinality({VersionInfo(w).major : w \in
                   {w \in ctx : Above(VersionInfo(w).major, i.major)}})
          [] k = "minor" ->
               Cardinality({VersionInfo(w).minor : w \in
                   {w \in ctx : /\ VersionInfo(w).major = i.major
                                 /\ Above(VersionInfo(w).minor, i.minor)}})
          [] k = "patch" ->
               Cardinality({VersionInfo(w).patch : w \in
                   {w \in ctx : /\ VersionInfo(w).major = i.major
                                 /\ VersionInfo(w).minor = i.minor
                                 /\ Above(VersionInfo(w).patch, i.patch)}})
          [] k = "rest" ->
               Cardinality({w \in ctx : /\ VersionInfo(w).major = i.major
                                        /\ VersionInfo(w).minor = i.minor
                                        /\ VersionInfo(w).patch = i.patch
                                        /\ Above(VersionInfo(w).order, i.order)})

Parts == <<"major", "minor", "patch", "rest">>

\* which parts a mode applies version gravity to (prefers old)
Gravity(mode, k) ==
    CASE mode = "UPDATE"               -> FALSE
      [] mode = "GRAVITY"              -> TRUE
      [] mode = "GRAVITY_WITH_PATCHES" -> k \in {"major", "minor"}

\* pricer.priceVersions(versions, mode, {versionBefore / versionAfter}):
\* [major, minor, patch, rest] cost lists; extra holds the version the
\* options name, which is priced with the list but gets no entry
priceVersions(versions, mode, extra) ==
    [j \in 1..4 |->
        [i \in DOMAIN versions |->
            PartRank(Parts[j], versions[i], Range(versions) \cup extra,
                     ~Gravity(mode, Parts[j]))]]

\* pricer.partitionVersions(versions, target)
partitionVersions(versions, target) ==
    [older |-> SelectSeqBy(versions,
                  {v \in Range(versions) : LessThan(v, target)}),
     compatible |-> SelectSeqBy(versions,
                  {v \in Range(versions) :
                      /\ ~LessThan(v, target)
                      /\ VersionInfo(v).major <= VersionInfo(target).major}),
     higherMajor |-> SelectSeqBy(versions,
                  {v \in Range(versions) :
                      /\ ~LessThan(v, target)
                      /\ VersionInfo(v).major > VersionInfo(target).major})]

\* pricer.priceVersionsWithPrevious(versions, previous):
\* [incompat, major, minor, patch, rest]
priceVersionsWithPrevious(versions, previous) ==
    LET parts == partitionVersions(versions, previous)
        r1 == priceVersions(parts.older, "UPDATE", {previous})
        r2 == priceVersions(parts.compatible, "GRAVITY", {})
        r3 == priceVersions(parts.higherMajor, "GRAVITY_WITH_PATCHES", {previous})
    IN  [j \in 1..5 |->
            IF j = 1
            THEN [i \in DOMAIN parts.older |-> 1]
                 \o [i \in DOMAIN parts.compatible |-> 0]
                 \o [i \in DOMAIN parts.higherMajor |-> 1]
            ELSE r1[j - 1] \o r2[j - 1] \o r3[j - 1]]

-----------------------------------------------------------------------------
(* Objective builders *)

FourSteps(stepBaseName) ==
    <<Step(stepBaseName \o "_major"), Step(stepBaseName \o "_minor"),
      Step(stepBaseName \o "_patch"), Step(stepBaseName \o "_rest")>>

RECURSIVE PricePackages(_, _, _, _, _)
PricePackages(in, allowed, packages, mode, stepList) ==
    IF packages = <<>> THEN stepList
    ELSE PricePackages(in, allowed, Tail(packages), mode,
            addCostsToSteps(Head(packages), getVersions(in, allowed, Head(packages)),
                priceVersions(getVersions(in, allowed, Head(packages)), mode, {}),
                stepList))

\* CS.Solver.prototype.getOldnesses
getOldnesses(in, allowed, stepBaseName, packages) ==
    PricePackages(in, allowed, packages, "UPDATE", FourSteps(stepBaseName))

\* CS.Solver.prototype.getGravityPotential
getGravityPotential(in, allowed, stepBaseName, packages) ==
    PricePackages(in, allowed, packages, "GRAVITY_WITH_PATCHES",
                  FourSteps(stepBaseName))

RECURSIVE PriceDistances(_, _, _, _)
PriceDistances(in, allowed, pvs, stepList) ==
    IF pvs = <<>> THEN stepList
    ELSE PriceDistances(in, allowed, Tail(pvs),
            addCostsToSteps(Head(pvs).package,
                getVersions(in, allowed, Head(pvs).package),
                priceVersionsWithPrevious(
                    getVersions(in, allowed, Head(pvs).package), Head(pvs).version),
                stepList))

\* CS.Solver.prototype.getDistances
getDistances(in, allowed, stepBaseName, packageAndVersions) ==
    PriceDistances(in, allowed, packageAndVersions,
        <<Step(stepBaseName \o "_incompat")>> \o FourSteps(stepBaseName))

-----------------------------------------------------------------------------
(* Decoding a solution *)

AllPVs == {PackageAndVersion(p, v) : p \in AllPackages, v \in Versions}

\* l.400-406: the true atoms with a space in them, parsed by
\* CS.PackageAndVersion.fromString
SelectedPVs(m) == {pv \in AllPVs : pvVar(pv.package, pv.version) \in m}

\* l.410-414: the assertion of currentVersionMap fails
SelectedTwoVersions(m) ==
    \E pv1, pv2 \in SelectedPVs(m) :
        pv1.package = pv2.package /\ pv1.version # pv2.version

\* CS.Solver.prototype.currentVersionMap, when the assertion holds
currentVersionMap(m) ==
    [p \in {pv.package : pv \in SelectedPVs(m)} |->
        CHOOSE v \in Versions : PackageAndVersion(p, v) \in SelectedPVs(m)]

-----------------------------------------------------------------------------
(* The state machine *)

NoOutcome == [kind |-> "none", message |-> ""]

NoAnalysis ==
    [unknownRootDeps |-> <<>>, previousRootDepVersions |-> <<>>,
     reachablePackages |-> <<>>, unknownPackages |-> <<>>,
     constraints |-> <<>>, unanticipatedPrereleases |-> <<>>]

NoLogic == [created |-> FALSE, vars |-> {}, models |-> {}, pins |-> {}]

NoResult ==
    [neededToUseUnanticipatedPrereleases |-> FALSE, answer |-> NoMap,
     allAnswers |-> <<>>]

Init ==
    /\ \E c \in DOMAIN Catalogs :
          /\ input \in InputsOf(c)
          /\ options \in [allAnswers : Families[c].allAnswers]
    /\ pc = "new"
    /\ allowedVersions = <<>>
    /\ analysis = NoAnalysis
    /\ logic = NoLogic
    /\ solution = {}
    /\ steps = <<>>
    /\ todo = <<>>
    /\ previousRootSteps = <<>>
    /\ errors = <<>>
    /\ outcome = NoOutcome
    /\ result = NoResult
    /\ pinMap = NoMap

\* CS.throwConstraintSolverError(message), or throw new Error(message)
Throw(kind, message) ==
    /\ outcome' = [kind |-> kind, message |-> message]
    /\ pc' = "done"

Reason(kind, subject, detail) ==
    [kind |-> kind, subject |-> subject, detail |-> detail,
     constraints |-> <<>>]

\* CS.Solver = function (input, options), l.8-34
Construct ==
    /\ pc = "new"
    /\ IF NoVersionPackages(input) # {}
       THEN /\ Throw("ConstraintSolverError",
                     "No version satisfies top-level constraints")
            /\ UNCHANGED allowedVersions
       ELSE /\ allowedVersions' = calculateAllowedVersions(input)
            /\ pc' = "constructed"
            /\ UNCHANGED outcome
    /\ UNCHANGED <<input, options, analysis, logic, solution, steps, todo,
                   previousRootSteps, errors, result, pinMap>>

\* the unknown root dependencies are recorded but throwAnyErrors is not
\* called
AnalyzeRootDependencies_NoThrow ==
    /\ pc = "constructed"
    /\ analysis' = [analysis EXCEPT
            !.unknownRootDeps = unknownRootDepsOf(input),
            !.previousRootDepVersions = previousRootDepVersionsOf(input)]
    /\ errors' = [i \in DOMAIN unknownRootDepsOf(input) |->
            Reason("unknown package in top-level dependencies",
                   unknownRootDepsOf(input)[i], <<>>)]
    /\ pc' = "rootsAnalyzed"
    /\ UNCHANGED <<input, options, allowedVersions, logic, solution, steps,
                   todo, previousRootSteps, outcome, result, pinMap>>

\* getSolution l.428-436, with analyzeRootDependencies and throwAnyErrors
AnalyzeRootDependencies ==
    /\ pc = "constructed"
    /\ analysis' = [analysis EXCEPT
            !.unknownRootDeps = unknownRootDepsOf(input),
            !.previousRootDepVersions = previousRootDepVersionsOf(input)]
    /\ errors' = [i \in DOMAIN unknownRootDepsOf(input) |->
            Reason("unknown package in top-level dependencies",
                   unknownRootDepsOf(input)[i], <<>>)]
    /\ IF unknownRootDepsOf(input) # <<>>
       THEN Throw("ConstraintSolverError", "unknown root dependencies")
       ELSE pc' = "rootsAnalyzed" /\ UNCHANGED outcome
    /\ UNCHANGED <<input, options, allowedVersions, logic, solution, steps,
                   todo, previousRootSteps, result, pinMap>>

\* getSolution l.438-439
AnalyzeReachability ==
    /\ pc = "rootsAnalyzed"
    /\ \E st \in {analyzeReachability(input, allowedVersions)} :
          analysis' = [analysis EXCEPT !.reachablePackages = st.reachable,
                                       !.unknownPackages = st.unknown]
    /\ pc' = "reachabilityAnalyzed"
    /\ UNCHANGED <<input, options, allowedVersions, logic, solution, steps,
                   todo, previousRootSteps, errors, outcome, result, pinMap>>

\* getSolution l.441-442
AnalyzeConstraints ==
    /\ pc = "reachabilityAnalyzed"
    /\ analysis' = [analysis EXCEPT !.constraints =
            analyzeConstraints(input, allowedVersions, analysis.reachablePackages)]
    /\ pc' = "constraintsAnalyzed"
    /\ UNCHANGED <<input, options, allowedVersions, logic, solution, steps,
                   todo, previousRootSteps, errors, outcome, result, pinMap>>

\* getSolution l.444-496: a new Logic.Solver, the clauses, the first solve
Solve ==
    /\ pc = "constraintsAnalyzed"
    /\ \E fs \in {Clauses(input, allowedVersions, analysis)} :
       \E ms \in {ModelsOf(fs)} :
          /\ logic' = [created |-> TRUE, vars |-> UNION {VarsOf(f) : f \in fs},
                       models |-> ms, pins |-> {}]
          /\ IF ms = {}
             THEN /\ Throw("Error", "Unexpected unsatisfiability")
                  /\ UNCHANGED solution
             ELSE /\ solution' \in ms
                  /\ pc' = "solved"
                  /\ UNCHANGED outcome
    /\ UNCHANGED <<input, options, allowedVersions, analysis, steps, todo,
                   previousRootSteps, errors, result, pinMap>>

\* the least weighted sum of step over the assignments ms
OptimumOf(step, ms) ==
    LET costs == {getWeightedSum(step, m) : m \in ms}
    IN  CHOOSE c \in costs : \A d \in costs : c <= d

\* the optimum of the steps update_* is not enforced
LockOptimum_NotUpdate(step, ms, opt) ==
    {m \in ms : \/ getWeightedSum(step, m) = opt
                \/ step.name \in {"update_major", "update_minor",
                                  "update_patch", "update_rest"}}

\* what logic.minimize leaves possible: the assignments whose weighted sum
\* is the optimum
LockOptimum(step, ms, opt) == {m \in ms : getWeightedSum(step, m) = opt}

\* the step is recorded with the cost of the solution at hand, which is not
\* improved
Minimize_NotImproving ==
    /\ outcome.kind = "none"
    /\ todo # <<>>
    /\ todo' = Tail(todo)
    /\ steps' = Append(steps, [Head(todo) EXCEPT !.optimum =
                                  getWeightedSum(Head(todo), solution)])
    /\ UNCHANGED <<input, options, pc, allowedVersions, analysis, logic,
                   solution, previousRootSteps, errors, outcome, result,
                   pinMap>>

\* CS.Solver.prototype.minimize(step), l.166-200, for the next step of the
\* array being minimized
Minimize ==
    /\ outcome.kind = "none"
    /\ todo # <<>>
    /\ todo' = Tail(todo)
    /\ \E ext \in {Extend(logic.models, Range(Head(todo).terms) \ logic.vars)} :
          IF ext = {}
          THEN /\ Throw("Error", "Unexpected unsatisfiability")
               /\ steps' = Append(steps, Head(todo))
               /\ UNCHANGED <<logic, solution>>
          ELSE \E opt \in {OptimumOf(Head(todo), ext)} :
               \E best \in {LockOptimum(Head(todo), ext, opt)} :
                  /\ logic' = [logic EXCEPT
                        !.vars = @ \cup Range(Head(todo).terms),
                        !.models = best]
                  /\ solution' \in best
                  /\ steps' = Append(steps, [Head(todo) EXCEPT !.optimum =
                                        getWeightedSum(Head(todo), solution')])
                  /\ UNCHANGED <<pc, outcome>>
    /\ UNCHANGED <<input, options, allowedVersions, analysis,
                   previousRootSteps, errors, result, pinMap>>

\* a statement of getSolution that calls self.minimize: the steps it passes
\* are minimized in order before the next statement runs
CallMinimize(from, to, stepList) ==
    /\ pc = from
    /\ todo = <<>>
    /\ outcome.kind = "none"
    /\ todo' = stepList
    /\ pc' = to
    /\ UNCHANGED <<input, options, allowedVersions, logic, solution, steps,
                   errors, outcome, result, pinMap>>

\* l.498-502
MinimizeUnknownPackages ==
    /\ CallMinimize("solved", "unknown_packages",
          <<ScalarStep("unknown_packages",
               [i \in DOMAIN analysis.unknownPackages |->
                   analysis.unknownPackages[i].package], 1)>>)
    /\ UNCHANGED <<analysis, previousRootSteps>>

\* l.504-511
MinimizeConflicts ==
    /\ CallMinimize("unknown_packages", "conflicts",
          <<ScalarStep("conflicts",
               [i \in DOMAIN analysis.constraints |->
                   analysis.constraints[i].conflictVar], 1)>>)
    /\ UNCHANGED <<analysis, previousRootSteps>>

\* self.stepsByName[name]
stepsByName(name) ==
    steps[CHOOSE i \in DOMAIN steps :
            /\ steps[i].name = name
            /\ \A j \in DOMAIN steps : steps[j].name = name => j <= i]

\* every prerelease counts, anticipated or not
UnanticipatedPrereleasesOf_Any(in, allowed, reachable) ==
    Flatten([i \in DOMAIN reachable |->
        LET vs == getVersions(in, allowed, reachable[i])
            keep == SelectSeqBy(vs, {v \in Range(vs) : IsPrerelease(v)})
        IN  [k \in DOMAIN keep |-> pvVar(reachable[i], keep[k])]])

\* l.514-523
UnanticipatedPrereleasesOf(in, allowed, reachable) ==
    Flatten([i \in DOMAIN reachable |->
        LET vs == getVersions(in, allowed, reachable[i])
            unanticipated == {v \in Range(vs) :
                /\ IsPrerelease(v)
                /\ ~(/\ reachable[i] \in DOMAIN in.anticipatedPrereleases
                     /\ v \in in.anticipatedPrereleases[reachable[i]])}
            keep == SelectSeqBy(vs, unanticipated)
        IN  [k \in DOMAIN keep |-> pvVar(reachable[i], keep[k])]])

\* l.513-526
MinimizeUnanticipatedPrereleases ==
    /\ analysis' = [analysis EXCEPT !.unanticipatedPrereleases =
          UnanticipatedPrereleasesOf(input, allowedVersions,
                                     analysis.reachablePackages)]
    /\ CallMinimize("conflicts", "unanticipated_prereleases",
          <<ScalarStep("unanticipated_prereleases",
                       analysis'.unanticipatedPrereleases, 1)>>)
    /\ UNCHANGED previousRootSteps

\* l.535-537
toUpdate(in, reachable) ==
    SelectSeqBy(in.upgrade, Range(in.upgrade) \cap Range(reachable))

RECURSIVE AddTerms(_, _, _, _)
\* _.each(versions, function (v) { step.addTerm(pvVar(p, v), weight) })
AddTerms(step, p, versions, weight) ==
    IF versions = <<>> THEN step
    ELSE AddTerms(addTerm(step, pvVar(p, Head(versions)), weight),
                  p, Tail(versions), weight)

RECURSIVE AddUpgradingRoots(_, _, _, _)
\* l.542-550: an upgrading root still counts for previous_root_incompat
AddUpgradingRoots(in, allowed, ps, step) ==
    IF ps = <<>> THEN step
    ELSE AddUpgradingRoots(in, allowed, Tail(ps),
            IF isRootDependency(in, Head(ps)) /\ isInPreviousSolution(in, Head(ps))
            THEN LET parts == partitionVersions(
                                 getVersions(in, allowed, Head(ps)),
                                 in.previousSolution[Head(ps)])
                 IN  AddTerms(step, Head(ps), parts.older \o parts.higherMajor, 1)
            ELSE step)

\* l.528-559: the previous_root_* steps are built; previous_root_incompat
\* is minimized here unless incompatible updates are allowed; then update_*
MinimizeUpdate ==
    /\ \E prs \in {getDistances(input, allowedVersions, "previous_root",
                                analysis.previousRootDepVersions)} :
       \E upd \in {toUpdate(input, analysis.reachablePackages)} :
          IF ~input.allowIncompatibleUpdate
          THEN /\ previousRootSteps' =
                    [prs EXCEPT ![1] = AddUpgradingRoots(input, allowedVersions, upd, @)]
               /\ CallMinimize("unanticipated_prereleases", "update",
                     <<previousRootSteps'[1]>>
                     \o getOldnesses(input, allowedVersions, "update", upd))
          ELSE /\ previousRootSteps' = prs
               /\ CallMinimize("unanticipated_prereleases", "update",
                     getOldnesses(input, allowedVersions, "update", upd))
    /\ UNCHANGED analysis

\* previous_root_incompat minimized after previous_root_major ..
\* previous_root_rest
MinimizePreviousRoot_IncompatLast ==
    /\ CallMinimize("update", "previous_root",
          SubSeq(previousRootSteps, 2, 5)
          \o (IF input.allowIncompatibleUpdate
              THEN <<previousRootSteps[1]>> ELSE <<>>))
    /\ UNCHANGED <<analysis, previousRootSteps>>

\* l.561-568: previous_root_incompat if it was not minimized yet, then
\* previous_root_major .. previous_root_rest
MinimizePreviousRoot ==
    /\ CallMinimize("update", "previous_root",
          (IF input.allowIncompatibleUpdate
           THEN <<previousRootSteps[1]>> ELSE <<>>)
          \o SubSeq(previousRootSteps, 2, 5))
    /\ UNCHANGED <<analysis, previousRootSteps>>

\* the order in which _.map walks the keys of input.previousSolution
PackageOrder ==
    <<"A", "B", "C", "D", "E", "F", "P", "Q", "R", "R1", "R2", "S", "T", "U",
      "U2", "V", "W", "X", "Y">>

\* no package of the previous solution is kept for the distance steps
otherPrevious_None(in, reachable) == <<>>

\* l.570-576
otherPrevious(in, reachable) ==
    LET ps == SelectSeqBy(PackageOrder,
                 {p \in DOMAIN in.previousSolution :
                     p \in Range(reachable) /\ ~isRootDependency(in, p)})
    IN  [i \in DOMAIN ps |-> PackageAndVersion(ps[i], in.previousSolution[ps[i]])]

\* l.570-578
MinimizePreviousIndirect ==
    /\ CallMinimize("previous_root", "previous_indirect",
          getDistances(input, allowedVersions, "previous_indirect",
                       otherPrevious(input, analysis.reachablePackages)))
    /\ UNCHANGED <<analysis, previousRootSteps>>

\* l.580-582
newRootDeps(in) ==
    SelectSeqBy(in.dependencies,
                {p \in Range(in.dependencies) : ~isInPreviousSolution(in, p)})

\* l.580-584
MinimizeNewRoot ==
    /\ CallMinimize("previous_indirect", "new_root",
          getOldnesses(input, allowedVersions, "new_root", newRootDeps(input)))
    /\ UNCHANGED <<analysis, previousRootSteps>>

\* l.589-593: the clauses the pin requires for the version map vm
PinClauses(in, vm) ==
    {LogicImplies(p, pvVar(p, vm[p])) :
        p \in {q \in DOMAIN vm : \/ isRootDependency(in, q)
                                 \/ isInPreviousSolution(in, q)
                                 \/ isUpgrading(in, q)}}

\* logic.require(formula) for each formula of fs
Require(lg, fs) ==
    [lg EXCEPT !.vars = @ \cup UNION {VarsOf(f) : f \in fs},
               !.models = {m \in Extend(lg.models,
                                        UNION {VarsOf(f) : f \in fs} \ lg.vars) :
                              \A f \in fs : Holds(f, m)}]

\* l.586-594: lock down the selected versions of root, previous and
\* upgrading packages
Pin ==
    /\ pc = "new_root"
    /\ todo = <<>>
    /\ outcome.kind = "none"
    /\ IF SelectedTwoVersions(solution)
       THEN /\ Throw("Error", "Assertion failure: Selected two versions")
            /\ UNCHANGED <<logic, pinMap>>
       ELSE /\ pinMap' = currentVersionMap(solution)
            /\ logic' = [Require(logic, PinClauses(input, pinMap')) EXCEPT
                            !.pins = PinClauses(input, pinMap')]
            /\ pc' = "pinned"
            /\ UNCHANGED outcome
    /\ UNCHANGED <<input, options, allowedVersions, analysis, solution, steps,
                   todo, previousRootSteps, errors, result>>

\* l.597-604
otherPackages(in, reachable) ==
    SelectSeqBy(reachable,
        {p \in Range(reachable) : ~(\/ isRootDependency(in, p)
                                    \/ isInPreviousSolution(in, p)
                                    \/ isUpgrading(in, p))})

\* l.596-606
MinimizeNewIndirect ==
    /\ CallMinimize("pinned", "new_indirect",
          getGravityPotential(input, allowedVersions, "new_indirect",
              otherPackages(input, analysis.reachablePackages)))
    /\ UNCHANGED <<analysis, previousRootSteps>>

\* l.608
MinimizeTotalPackages ==
    /\ CallMinimize("new_indirect", "total_packages",
          <<ScalarStep("total_packages", analysis.reachablePackages, 1)>>)
    /\ UNCHANGED <<analysis, previousRootSteps>>

-----------------------------------------------------------------------------
(* Post-solve diagnostics *)

\* CS.Solver.prototype.throwAnyErrors, then the statement after it
ThrowAnyErrors(errs, next) ==
    IF errs # <<>>
    THEN Throw("ConstraintSolverError", "constraint solver error")
    ELSE pc' = next /\ UNCHANGED outcome

\* l.612-625: one reason per unknown package the solution selects, with
\* the selected package versions that ask for it
UnknownPackageReasons(unknown, m) ==
    LET needed == SelectSeqBy([i \in DOMAIN unknown |-> unknown[i].package], m)
        RequirersOf(p) ==
            unknown[CHOOSE i \in DOMAIN unknown : unknown[i].package = p].requirers
    IN  [i \in DOMAIN needed |->
            Reason("unknown package", needed[i],
                   SelectSeqBy(RequirersOf(needed[i]), m))]

\* l.610-627
ThrowUnknownPackages ==
    /\ pc = "total_packages"
    /\ todo = <<>>
    /\ outcome.kind = "none"
    /\ IF stepsByName("unknown_packages").optimum > 0
       THEN /\ errors' = errors \o
                    UnknownPackageReasons(analysis.unknownPackages, solution)
            /\ ThrowAnyErrors(errors', "unknownChecked")
       ELSE /\ pc' = "unknownChecked"
            /\ UNCHANGED <<errors, outcome>>
    /\ UNCHANGED <<input, options, allowedVersions, analysis, logic, solution,
                   steps, todo, previousRootSteps, result, pinMap>>

\* CS.PackageAndVersion.fromString
fromString(x) == CHOOSE pv \in AllPVs : pvVar(pv.package, pv.version) = x

\* var hasDep = function (p1, p2), l.814-817: weak dependencies included
hasDep(in, vm, p1, p2) ==
    \E dep \in Range(getDependencyMap(in.catalogCache, p1, vm[p1])) :
        dep.package = p2

\* var newPath = [pv].concat(path), l.842
NewPath(pv, path) == <<pv>> \o path

RECURSIVE RetainPaths(_, _, _)
\* _.each(getPaths(newPV, newIgnorePackageSet), ...), l.841-847: a path is
\* kept if none is kept yet or it is shorter than shortestLength;
\* acc = [paths, shortestLength]
RetainPaths(pv, found, acc) ==
    IF found = <<>> THEN acc
    ELSE RetainPaths(pv, Tail(found),
            IF acc.paths = <<>>
               \/ Len(NewPath(pv, Head(found))) < acc.shortestLength
            THEN [paths |-> Append(acc.paths, NewPath(pv, Head(found))),
                  shortestLength |-> Len(NewPath(pv, Head(found)))]
            ELSE acc)

RECURSIVE getPaths(_, _, _, _, _, _)
RECURSIVE EachPackage(_, _, _, _, _, _, _, _)

\* _.each(allPackages, function (p) ...), l.836-849, from the package at i
EachPackage(in, m, vm, allPackages, pv, newIgnorePackageSet, i, acc) ==
    IF i > Len(allPackages) THEN acc
    ELSE EachPackage(in, m, vm, allPackages, pv, newIgnorePackageSet, i + 1,
            IF /\ allPackages[i] \notin newIgnorePackageSet
               /\ allPackages[i] \in m
               /\ hasDep(in, vm, allPackages[i], pv.package)
            THEN RetainPaths(pv,
                    getPaths(in, m, vm, allPackages,
                             PackageAndVersion(allPackages[i],
                                               vm[allPackages[i]]),
                             newIgnorePackageSet),
                    acc)
            ELSE acc)

\* var getPaths = function (pv, _ignorePackageSet), l.820-852
getPaths(in, m, vm, allPackages, pv, ignorePackageSet) ==
    IF pvVar(pv.package, pv.version) \notin m THEN <<>>
    ELSE IF isRootDependency(in, pv.package) THEN <<<<pv>>>>
    ELSE EachPackage(in, m, vm, allPackages, pv,
                     ignorePackageSet \cup {pv.package}, 1,
                     [paths |-> <<>>, shortestLength |-> 0]).paths

\* CS.Solver.prototype.getPathsToPackageVersion for a solution m that
\* currentVersionMap decodes; allPackages is _.keys(versionMap), l.818
getPathsToPackageVersion(in, m, allPackages, packageAndVersion) ==
    getPaths(in, m, currentVersionMap(m), allPackages, packageAndVersion, {})

\* the orders in which _.keys(versionMap) may list the packages: the order
\* of solution.getTrueVars()
KeyOrders(m) ==
    LET keys == DOMAIN currentVersionMap(m)
    IN  DistinctSeqs(keys, Cardinality(keys), Cardinality(keys))

RECURSIVE ConstraintLines(_, _, _, _, _)
\* CS.Solver.prototype.listConstraintsOnPackage(package), l.726-749: one
\* line [constraint, path] per path, the path as path.join would print it
ConstraintLines(in, m, allPackages, constraints, package) ==
    IF constraints = <<>> THEN <<>>
    ELSE (IF Head(constraints).toPackage # package THEN <<>>
          ELSE LET c == Head(constraints)
                   paths == IF c.fromVar # ""
                            THEN getPathsToPackageVersion(in, m, allPackages,
                                     fromString(c.fromVar))
                            ELSE <<<<PackageAndVersion("top", "level")>>>>
               IN  [k \in DOMAIN paths |->
                      [constraint |-> c.conflictVar,
                       path |-> [j \in DOMAIN paths[k] |->
                                   pvVar(paths[k][j].package,
                                         paths[k][j].version)]]])
         \o ConstraintLines(in, m, allPackages, Tail(constraints), package)

\* listConstraintsOnPackage(package) calls getPathsToPackageVersion for a
\* constraint that comes from a package version (l.735-737), which decodes
\* the solution with currentVersionMap first (l.804)
listConstraintsOnPackageFails(constraints, package, m) ==
    /\ \E i \in DOMAIN constraints :
          constraints[i].toPackage = package /\ constraints[i].fromVar # ""
    /\ SelectedTwoVersions(m)

RECURSIVE ExplainConflicts(_, _, _, _, _, _)
\* the loop of throwConflicts, l.757-779: [thrown, errors]
ExplainConflicts(in, allowed, constraints, allPackages, i, st) ==
    IF i > Len(constraints) \/ st.thrown # "" THEN st
    ELSE LET c == constraints[i]
             possibleVersions == getVersions(in, allowed, c.toPackage)
             chosen == SelectSeqBy(possibleVersions,
                          {v \in Range(possibleVersions) :
                              pvVar(c.toPackage, v) \in solution})
         IN  ExplainConflicts(in, allowed, constraints, allPackages, i + 1,
                IF c.conflictVar \notin solution THEN st
                ELSE IF chosen = <<>>
                THEN [st EXCEPT !.thrown = "Internal error: Version not found"]
                ELSE IF listConstraintsOnPackageFails(constraints, c.toPackage,
                                                      solution)
                THEN [st EXCEPT !.thrown =
                         "Assertion failure: Selected two versions"]
                ELSE [st EXCEPT !.errors = Append(@,
                         [Reason("conflict", pvVar(c.toPackage, Head(chosen)),
                                 <<c.conflictVar>>)
                            EXCEPT !.constraints =
                               ConstraintLines(in, solution, allPackages,
                                               constraints, c.toPackage)])])

\* l.629-632 with CS.Solver.prototype.throwConflicts
ThrowConflicts ==
    /\ pc = "unknownChecked"
    /\ IF stepsByName("conflicts").optimum > 0
       THEN \E allPackages \in KeyOrders(solution) :
            \E st \in {ExplainConflicts(input, allowedVersions,
                          analysis.constraints, allPackages, 1,
                          [thrown |-> "", errors |-> errors])} :
               /\ errors' = st.errors
               /\ IF st.thrown # "" THEN Throw("Error", st.thrown)
                  ELSE IF st.errors # <<>>
                  THEN Throw("ConstraintSolverError", "constraint solver error")
                  ELSE Throw("Error",
                          "Internal error: conflicts could not be explained")
       ELSE /\ pc' = "conflictsChecked"
            /\ UNCHANGED <<errors, outcome>>
    /\ UNCHANGED <<input, options, allowedVersions, analysis, logic, solution,
                   steps, todo, previousRootSteps, result, pinMap>>

\* the keys of CS.Solver.prototype.getStepContributions(step): the terms of
\* non-zero weight that the solution m makes true
getStepContributions(step, m) ==
    LET idx == SelectSeqBy([i \in DOMAIN step.terms |-> i],
                  {i \in DOMAIN step.terms :
                      WeightOf(step, i) # 0 /\ step.terms[i] \in m})
    IN  [k \in DOMAIN idx |-> step.terms[idx[k]]]

\* l.636-645: one reason per contribution to previous_root_incompat
BreakingChangeReasons(in, m, allPackages, constraints, contributions) ==
    [i \in DOMAIN contributions |->
        [Reason("Breaking change required to top-level dependency",
                contributions[i],
                <<in.previousSolution[fromString(contributions[i]).package]>>)
           EXCEPT !.constraints =
              ConstraintLines(in, m, allPackages, constraints,
                              fromString(contributions[i]).package)]]

AllowIncompatibleUpdateHint ==
    Reason("To allow breaking changes to top-level dependencies, you must pass --allow-incompatible-update",
           "", <<>>)

\* l.634-649
ThrowBreakingChange ==
    /\ pc = "conflictsChecked"
    /\ IF /\ ~input.allowIncompatibleUpdate
          /\ stepsByName("previous_root_incompat").optimum > 0
       THEN \E contributions \in
                {getStepContributions(stepsByName("previous_root_incompat"),
                                      solution)} :
               IF \E i \in DOMAIN contributions :
                     listConstraintsOnPackageFails(analysis.constraints,
                         fromString(contributions[i]).package, solution)
               THEN /\ Throw("Error", "Assertion failure: Selected two versions")
                    /\ UNCHANGED errors
               ELSE /\ \E allPackages \in KeyOrders(solution) :
                          errors' = errors
                             \o BreakingChangeReasons(input, solution,
                                    allPackages, analysis.constraints,
                                    contributions)
                             \o <<AllowIncompatibleUpdateHint>>
                    /\ ThrowAnyErrors(errors', "diagnosed")
       ELSE /\ pc' = "diagnosed"
            /\ UNCHANGED <<errors, outcome>>
    /\ UNCHANGED <<input, options, allowedVersions, analysis, logic, solution,
                   steps, todo, previousRootSteps, result, pinMap>>

\* l.651-658 and, without allAnswers, l.674
ReturnResult ==
    /\ pc = "diagnosed"
    /\ IF SelectedTwoVersions(solution)
       THEN /\ Throw("Error", "Assertion failure: Selected two versions")
            /\ UNCHANGED result
       ELSE /\ result' =
                 [neededToUseUnanticipatedPrereleases |->
                      stepsByName("unanticipated_prereleases").optimum > 0,
                  answer |-> currentVersionMap(solution),
                  allAnswers |-> IF options.allAnswers
                                 THEN <<currentVersionMap(solution)>> ELSE <<>>]
            /\ IF options.allAnswers
               THEN pc' = "enumerating" /\ UNCHANGED outcome
               ELSE pc' = "done" /\ outcome' = [kind |-> "result", message |-> ""]
    /\ UNCHANGED <<input, options, allowedVersions, analysis, logic, solution,
                   steps, todo, previousRootSteps, errors, pinMap>>

\* what logic.solveAssuming(Logic.not(solution.getFormula())) may return:
\* an allowed assignment that differs from m on some atom
OtherSolutions(lg, m) == {n \in lg.models : n # m}

\* logic.forbid(formula), formula describing the whole assignment m
Forbid(lg, m) == [lg EXCEPT !.models = @ \ {m}]

\* the loop without logic.forbid(formula): the assignment just left stays
\* allowed
NextAnswer_NoForbid ==
    /\ pc = "enumerating"
    /\ IF OtherSolutions(logic, solution) # {}
       THEN /\ solution' \in OtherSolutions(logic, solution)
            /\ IF SelectedTwoVersions(solution')
               THEN /\ Throw("Error", "Assertion failure: Selected two versions")
                    /\ UNCHANGED result
               ELSE /\ result' = [result EXCEPT !.allAnswers =
                                     Append(@, currentVersionMap(solution'))]
                    /\ UNCHANGED <<pc, outcome>>
       ELSE /\ pc' = "done"
            /\ outcome' = [kind |-> "result", message |-> ""]
            /\ UNCHANGED <<solution, result>>
    /\ UNCHANGED <<input, options, allowedVersions, analysis, logic, steps,
                   todo, previousRootSteps, errors, pinMap>>

\* one turn of while (nextAnswer()) { ... }, l.659-670, or the end of the
\* loop and the return, l.671-674
NextAnswer ==
    /\ pc = "enumerating"
    /\ IF OtherSolutions(logic, solution) # {}
       THEN /\ solution' \in OtherSolutions(logic, solution)
            /\ logic' = Forbid(logic, solution)
            /\ IF SelectedTwoVersions(solution')
               THEN /\ Throw("Error", "Assertion failure: Selected two versions")
                    /\ UNCHANGED result
               ELSE /\ result' = [result EXCEPT !.allAnswers =
                                     Append(@, currentVersionMap(solution'))]
                    /\ UNCHANGED <<pc, outcome>>
       ELSE /\ pc' = "done"
            /\ outcome' = [kind |-> "result", message |-> ""]
            /\ UNCHANGED <<logic, solution, result>>
    /\ UNCHANGED <<input, options, allowedVersions, analysis, steps, todo,
                   previousRootSteps, errors, pinMap>>

Next ==
    \/ Construct
    \/ AnalyzeRootDependencies
    \/ AnalyzeReachability
    \/ AnalyzeConstraints
    \/ Solve
    \/ Minimize
    \/ MinimizeUnknownPackages
    \/ MinimizeConflicts
    \/ MinimizeUnanticipatedPrereleases
    \/ MinimizeUpdate
    \/ MinimizePreviousRoot
    \/ MinimizePreviousIndirect
    \/ MinimizeNewRoot
    \/ Pin
    \/ MinimizeNewIndirect
    \/ MinimizeTotalPackages
    \/ ThrowUnknownPackages
    \/ ThrowConflicts
    \/ ThrowBreakingChange
    \/ ReturnResult
    \/ NextAnswer

Spec == Init /\ [][Next]_vars

\* getSolution is synchronous: once in the loop of allAnswers, the next turn
\* of the loop is always executed
LiveSpec == Spec /\ WF_vars(NextAnswer)

-----------------------------------------------------------------------------
(* Properties *)

\* getSolution returned a result
Returned == pc = "done" /\ outcome.kind = "result"

\* result.answer was just decoded from the current solution
AnswerDecoded ==
    \/ Returned /\ ~options.allAnswers
    \/ pc = "enumerating" /\ Len(result.allAnswers) = 1

\* every step of getSolution was minimized, so the diagnostics were reached
DiagnosticsReached ==
    pc = "done" /\ \E i \in DOMAIN steps : steps[i].name = "total_packages"

\* the strong dependencies of version v of p in the catalog
StrongDeps(in, p, v) ==
    {dep \in Range(getDependencyMap(in.catalogCache, p, v)) : ~dep.isWeak}

RECURSIVE StrongClosure(_, _)
StrongClosure(in, S) ==
    LET T == S \cup {dep.package : dep \in UNION {StrongDeps(in, p, v) :
                        p \in S, v \in Versions}}
    IN  IF T = S THEN S ELSE StrongClosure(in, T)

\* the packages reachable from the roots through strong dependencies
StrongReachable(in) == StrongClosure(in, Range(in.dependencies))

\* the version map vm satisfies its own strong dependencies
DepsSatisfied(in, vm) ==
    \A p \in DOMAIN vm : \A dep \in StrongDeps(in, p, vm[p]) :
        /\ dep.package \in DOMAIN vm
        /\ isConstraintSatisfied(dep.package, dep.vc, vm[dep.package])

\* the version map vm satisfies the top-level constraints on its packages
TopLevelSatisfied(in, vm) ==
    \A c \in Range(in.constraints) :
        c.package \in DOMAIN vm =>
            isConstraintSatisfied(c.package, c.versionConstraint, vm[c.package])

\* C1: whenever getSolution returns a result, every strong dependency of a
\* package version of answer is in answer at a version that satisfies the
\* dependency's constraint, and every top-level constraint on a package of
\* answer is satisfied by its version in answer.
C1_ConstraintsSatisfied ==
    Returned => /\ DepsSatisfied(input, result.answer)
                /\ TopLevelSatisfied(input, result.answer)

\* the version map vm gives versions of the catalog
CatalogVersions(in, vm) ==
    \A p \in DOMAIN vm : vm[p] \in Range(getPackageVersions(in.catalogCache, p))

\* C2: every solution the driver decodes with currentVersionMap (at the pin,
\* for the answer, for each enumerated answer) selects one version per
\* package, a version of the catalog: the "Selected two versions" assertion
\* is never raised.
C2_SingleVersion ==
    /\ outcome.message # "Assertion failure: Selected two versions"
    /\ \A vm \in {pinMap, result.answer} \cup Range(result.allAnswers) :
          CatalogVersions(input, vm)

\* C3: every package of a returned answer is reachable from the root
\* dependencies through strong dependencies; a package that is only the
\* target of weak dependencies is never a key of answer.
C3_AnswerReachable ==
    Returned => DOMAIN result.answer \subseteq StrongReachable(input)

\* C4: whenever getSolution returns a result, every root dependency is a key
\* of answer.
C4_RootCoverage ==
    Returned => Range(input.dependencies) \subseteq DOMAIN result.answer

\* a result was returned for two root dependencies
C4_Witness ==
    /\ Returned
    /\ Len(input.dependencies) = 2
    /\ Range(input.dependencies) \subseteq DOMAIN result.answer

\* the assignments, over the atoms the backend knows, that satisfy the
\* dependency and constraint clauses of l.446-486 (no optimum, no pin)
BaseModels ==
    LET fs == Clauses(input, allowedVersions, analysis)
    IN  Extend(ModelsOf(fs), logic.vars \ UNION {VarsOf(f) : f \in fs})

\* m costs less than sol on step i and the same on every earlier step
BetterAt(m, sol, i) ==
    /\ getWeightedSum(steps[i], m) < getWeightedSum(steps[i], sol)
    /\ \A j \in 1..(i - 1) :
          getWeightedSum(steps[j], m) = getWeightedSum(steps[j], sol)

\* step i was minimized after the pin
AfterPin(i) ==
    \E k \in DOMAIN steps : steps[k].name = "new_root_rest" /\ k < i

ConflictVars == {analysis.constraints[i].conflictVar : i \in DOMAIN analysis.constraints}

\* package p has a previous version, is reachable and is not being upgraded
Sticky(p) ==
    /\ p \in DOMAIN input.previousSolution
    /\ p \in Range(analysis.reachablePackages)
    /\ p \notin Range(input.upgrade)

\* the assignments that keep package p at its previous version and satisfy
\* the dependency clauses and every constraint, none waived
KeepingPrevious(p) ==
    {m \in BaseModels : /\ pvVar(p, input.previousSolution[p]) \in m
                        /\ m \cap ConflictVars = {}}

\* C6 as stated: a reachable package of the previous solution that is not
\* being upgraded, and whose previous version is selected by some assignment
\* satisfying the dependency clauses and all constraints, has its previous
\* version in the answer getSolution returns.
C6_Stickiness ==
    pc = "done" =>
        \A p \in AllPackages :
            Sticky(p) /\ KeepingPrevious(p) # {} =>
                /\ outcome.kind = "result"
                /\ p \in DOMAIN result.answer
                /\ result.answer[p] = input.previousSolution[p]

\* the steps that hold the distance of package p from its previous version
DistanceGroup(p) ==
    IF isRootDependency(input, p) THEN "previous_root" ELSE "previous_indirect"

DistanceSteps(p) ==
    {DistanceGroup(p) \o part :
        part \in {"_incompat", "_major", "_minor", "_patch", "_rest"}}

\* the assignments of KeepingPrevious(p) that attain the optimum of every
\* step minimized before the last distance step of p and cost nothing on
\* the distance steps of p
KeepingAtNoCost(p) ==
    LET last == CHOOSE i \in DOMAIN steps :
                    steps[i].name = DistanceGroup(p) \o "_rest"
    IN  {m \in KeepingPrevious(p) :
            \A i \in 1..last :
                getWeightedSum(steps[i], m) =
                    IF steps[i].name \in DistanceSteps(p) THEN 0
                    ELSE steps[i].optimum}

\* C6, amended: when the previous version of such a package is selected by
\* an assignment that satisfies the dependency clauses and all constraints,
\* attains the optimum of every step minimized before the package's distance
\* steps and costs nothing on these, every answer getSolution returns has
\* the package at its previous version if it has it at all, and has it if
\* it is a root dependency.
C6_StickinessAtNoCost ==
    Returned =>
        \A p \in AllPackages :
            Sticky(p) /\ KeepingAtNoCost(p) # {} =>
                /\ p \in DOMAIN result.answer =>
                        result.answer[p] = input.previousSolution[p]
                /\ isRootDependency(input, p) => p \in DOMAIN result.answer

\* an answer keeps the previous version of a package that is not a root
\* dependency and has a newer version, while another package is upgraded
C6_Witness ==
    /\ Returned
    /\ input.upgrade # <<>>
    /\ \E p \in DOMAIN result.answer :
          /\ Sticky(p)
          /\ ~isRootDependency(input, p)
          /\ KeepingAtNoCost(p) # {}
          /\ result.answer[p] = input.previousSolution[p]
          /\ \E v \in Range(getVersions(input, allowedVersions, p)) :
                LessThan(result.answer[p], v)

\* version v of package p, a root dependency of the previous solution, is
\* incompatible with the previous version of p: a non-zero incompat cost
\* for a root that is not being upgraded, the older or higherMajor partition
\* for one that is
IncompatibleUpdate(p, v) ==
    /\ isRootDependency(input, p)
    /\ isInPreviousSolution(input, p)
    /\ LET versions == getVersions(input, allowedVersions, p)
           previous == input.previousSolution[p]
           parts == partitionVersions(versions, previous)
       IN  IF isUpgrading(input, p)
           THEN v \in Range(parts.older) \cup Range(parts.higherMajor)
           ELSE \E i \in DOMAIN versions :
                   /\ versions[i] = v
                   /\ priceVersionsWithPrevious(versions, previous)[1][i] # 0

\* the incompatible root versions the assignment m selects
IncompatibleSelected(m) ==
    {pv \in AllPVs : /\ pvVar(pv.package, pv.version) \in m
                     /\ IncompatibleUpdate(pv.package, pv.version)}

BreakingChangeSubjects ==
    {errors[i].subject : i \in {j \in DOMAIN errors : errors[j].kind =
        "Breaking change required to top-level dependency"}}

\* C7: without allowIncompatibleUpdate no returned answer has a root
\* dependency of the previous solution at a version incompatible with its
\* previous version; when the solution found selects such versions (and no
\* unknown package or conflict is reported first) a constraint-solver error
\* is raised with a 'Breaking change required to top-level dependency'
\* reason for each of them and the --allow-incompatible-update hint; with
\* allowIncompatibleUpdate no such reason is ever given.
C7_IncompatibleUpdateGuard ==
    /\ Returned /\ ~input.allowIncompatibleUpdate =>
          \A p \in DOMAIN result.answer :
              ~IncompatibleUpdate(p, result.answer[p])
    /\ /\ DiagnosticsReached
       /\ ~input.allowIncompatibleUpdate
       /\ stepsByName("unknown_packages").optimum = 0
       /\ stepsByName("conflicts").optimum = 0
       /\ IncompatibleSelected(solution) # {}
       => /\ outcome.kind = "ConstraintSolverError"
          /\ BreakingChangeSubjects =
                {pvVar(pv.package, pv.version) :
                    pv \in IncompatibleSelected(solution)}
          /\ errors[Len(errors)] = AllowIncompatibleUpdateHint
    /\ input.allowIncompatibleUpdate => BreakingChangeSubjects = {}

\* the kinds of the reasons accumulated in self.errors
ErrorKinds == {errors[i].kind : i \in DOMAIN errors}

\* C8: once the minimizations are done, a positive unknown_packages optimum
\* ends in a constraint-solver error with only 'unknown package' reasons;
\* otherwise a positive conflicts optimum ends in one with only 'conflict'
\* reasons; otherwise, without allowIncompatibleUpdate, a positive
\* previous_root_incompat optimum ends in one with only the breaking-change
\* reasons and the hint; a result is returned only when none of the three
\* holds.
C8_DiagnosticsPriority ==
    DiagnosticsReached =>
        LET unknown == stepsByName("unknown_packages").optimum > 0
            conflict == stepsByName("conflicts").optimum > 0
            breaking == /\ ~input.allowIncompatibleUpdate
                        /\ stepsByName("previous_root_incompat").optimum > 0
            Raised(kinds) == /\ outcome.kind = "ConstraintSolverError"
                             /\ ErrorKinds = kinds
        IN  IF unknown THEN Raised({"unknown package"})
            ELSE IF conflict THEN Raised({"conflict"})
            ELSE IF breaking
            THEN Raised({"Breaking change required to top-level dependency",
                         AllowIncompatibleUpdateHint.kind})
            ELSE outcome.kind # "ConstraintSolverError"

\* C9: the allAnswers list returned holds no version map twice.
C9_NoDuplicateAnswers ==
    Returned =>
        \A i, j \in DOMAIN result.allAnswers :
            result.allAnswers[i] = result.allAnswers[j] => i = j

\* C10: every version map of allAnswers gives catalog versions, has every
\* root dependency, satisfies the strong dependencies and the top-level
\* constraints and has only packages reachable through strong dependencies;
\* the solution each was decoded from costs, on every step, the optimum
\* recorded for the step.
C10_AllAnswersValid ==
    options.allAnswers /\ (pc = "enumerating" \/ Returned) =>
        /\ \A vm \in Range(result.allAnswers) :
              /\ CatalogVersions(input, vm)
              /\ Range(input.dependencies) \subseteq DOMAIN vm
              /\ DepsSatisfied(input, vm)
              /\ TopLevelSatisfied(input, vm)
              /\ DOMAIN vm \subseteq StrongReachable(input)
        /\ \A i \in DOMAIN steps :
              getWeightedSum(steps[i], solution) = steps[i].optimum

\* C11: the enumeration loop of allAnswers terminates: every turn that
\* stays in the loop leaves the backend fewer allowed assignments, and a run
\* that enters the loop leaves it.
C11_EnumerationTerminates ==
    /\ [][pc = "enumerating" /\ pc' = "enumerating" =>
            /\ logic'.models \subseteq logic.models
            /\ logic'.models # logic.models]_vars
    /\ (pc = "enumerating") ~> (pc = "done")

\* the loop was left, solveAssuming finding no further assignment, after it
\* had recorded two more answers
C11_Witness ==
    /\ Returned
    /\ options.allAnswers
    /\ Len(result.allAnswers) >= 3
    /\ OtherSolutions(logic, solution) = {}

\* the root dependencies the catalog has no version of, in input order
UnknownRoots ==
    SelectSeqBy(input.dependencies,
        {p \in Range(input.dependencies) :
            getPackageVersions(input.catalogCache, p) = <<>>})

\* getSolution has run its root triage
RootsTriaged ==
    /\ pc \notin {"new", "constructed"}
    /\ outcome.message # "No version satisfies top-level constraints"

\* C12: with an unknown root dependency getSolution ends, right after the
\* root triage, in a constraint-solver error with exactly one 'unknown
\* package in top-level dependencies' reason per unknown root: reachability
\* and constraints are not analyzed, no Logic solver is created and no step
\* is minimized.
C12_UnknownRootsStop ==
    RootsTriaged /\ UnknownRoots # <<>> =>
        /\ pc = "done"
        /\ outcome.kind = "ConstraintSolverError"
        /\ errors = [i \in DOMAIN UnknownRoots |->
                        Reason("unknown package in top-level dependencies",
                               UnknownRoots[i], <<>>)]
        /\ analysis.reachablePackages = <<>>
        /\ analysis.unknownPackages = <<>>
        /\ analysis.constraints = <<>>
        /\ ~logic.created
        /\ steps = <<>> /\ todo = <<>>
        /\ solution = {}

\* the error was raised for two unknown root dependencies
C12_Witness ==
    /\ pc = "done"
    /\ outcome.kind = "ConstraintSolverError"
    /\ Len(UnknownRoots) = 2
    /\ Len(errors) = 2

\* the packages the top-level constraints name
ConstrainedPackages == {c.package : c \in Range(input.constraints)}

\* the catalog versions of p that satisfy every top-level constraint on p
SatisfyingVersions(p) ==
    SelectSeqBy(getPackageVersions(input.catalogCache, p),
        {v \in Range(getPackageVersions(input.catalogCache, p)) :
            \A c \in Range(input.constraints) :
                c.package = p =>
                    isConstraintSatisfied(p, c.versionConstraint, v)})

\* the constrained packages of the catalog that are left with no version
Unsatisfiable ==
    {p \in ConstrainedPackages :
        /\ getPackageVersions(input.catalogCache, p) # <<>>
        /\ SatisfyingVersions(p) = <<>>}

\* C13: constructing the Solver fails with 'No version satisfies top-level
\* constraints' exactly when some constrained package of the catalog has no
\* version satisfying all its top-level constraints; otherwise getVersions
\* of a constrained package of the catalog is its catalog versions that
\* satisfy all of them, and getVersions of any other package (a constrained
\* package the catalog lacks included) is the catalog list.
C13_AllowedVersions ==
    pc # "new" =>
        /\ (outcome.message = "No version satisfies top-level constraints")
              <=> Unsatisfiable # {}
        /\ Unsatisfiable # {} =>
              pc = "done" /\ outcome.kind = "ConstraintSolverError"
        /\ Unsatisfiable = {} =>
              \A p \in AllPackages :
                  getVersions(input, allowedVersions, p) =
                      IF /\ p \in ConstrainedPackages
                         /\ getPackageVersions(input.catalogCache, p) # <<>>
                      THEN SatisfyingVersions(p)
                      ELSE getPackageVersions(input.catalogCache, p)

\* the Solver was constructed with two top-level constraints on a package,
\* which left it some but not all of its versions
C13_Witness ==
    /\ pc = "constructed"
    /\ \E p \in ConstrainedPackages :
          /\ Len(ConstraintsOn(input, p)) = 2
          /\ getVersions(input, allowedVersions, p) # <<>>
          /\ getVersions(input, allowedVersions, p)
                # getPackageVersions(input.catalogCache, p)

\* version v of package p is a prerelease the input does not anticipate
Unanticipated(p, v) ==
    /\ IsPrerelease(v)
    /\ ~(/\ p \in DOMAIN input.anticipatedPrereleases
         /\ v \in input.anticipatedPrereleases[p])

\* the version map vm has a reachable package at an unanticipated prerelease
UsesUnanticipated(vm) ==
    \E p \in DOMAIN vm \cap Range(analysis.reachablePackages) :
        Unanticipated(p, vm[p])

\* the assignments of least unknown-package and conflict cost that select no
\* unanticipated prerelease of a reachable package
AvoidingPrereleases ==
    {m \in BaseModels :
        /\ getWeightedSum(stepsByName("unknown_packages"), m)
              = stepsByName("unknown_packages").optimum
        /\ getWeightedSum(stepsByName("conflicts"), m)
              = stepsByName("conflicts").optimum
        /\ ~\E pv \in SelectedPVs(m) :
              /\ pv.package \in Range(analysis.reachablePackages)
              /\ Unanticipated(pv.package, pv.version)}

\* C14: in a returned result neededToUseUnanticipatedPrereleases is true
\* exactly when answer has a reachable package at a prerelease version that
\* is not anticipated for it, and then no assignment of least unknown-package
\* and conflict cost avoids all such versions.
C14_PrereleaseFlag ==
    Returned =>
        /\ result.neededToUseUnanticipatedPrereleases
              <=> UsesUnanticipated(result.answer)
        /\ UsesUnanticipated(result.answer) => AvoidingPrereleases = {}

\* a result with the flag set for a package whose catalog also has a version
\* that is no prerelease
C14_Witness ==
    /\ Returned
    /\ result.neededToUseUnanticipatedPrereleases
    /\ \E p \in DOMAIN result.answer :
          /\ Unanticipated(p, result.answer[p])
          /\ \E v \in Range(getVersions(input, allowedVersions, p)) :
                ~IsPrerelease(v)

\* the assignments the backend may return from the last minimization before
\* the pin: those that cost the recorded optimum on every step minimized
\* before it
PrePinModels ==
    {m \in BaseModels :
        \A i \in DOMAIN steps :
            ~AfterPin(i) => getWeightedSum(steps[i], m) = steps[i].optimum}

\* the assignments left after the steps of stepList are minimized in order
\* from the assignments ms
RECURSIVE MinimizeAll(_, _)
MinimizeAll(stepList, ms) ==
    IF stepList = <<>> \/ ms = {}
    THEN ms
    ELSE MinimizeAll(Tail(stepList),
                     LockOptimum(Head(stepList), ms,
                                 OptimumOf(Head(stepList), ms)))

\* the assignments an invocation may end with when the backend returned s
\* from the last minimization before the pin
FinalModels(s) ==
    MinimizeAll(SelectSeqBy(steps, {st \in Range(steps) :
                    \E i \in DOMAIN steps : steps[i] = st /\ AfterPin(i)}),
                {m \in PrePinModels :
                    \A f \in PinClauses(input, currentVersionMap(s)) :
                        Holds(f, m)})

\* C15 as stated: when an invocation returns an answer, every choice the
\* backend has among equally optimal assignments, at the pin and at the last
\* minimization, leads to that same answer and to no error.
C15_Determinism ==
    Returned /\ ~options.allAnswers =>
        \A s \in PrePinModels :
            /\ ~SelectedTwoVersions(s)
            /\ \A m \in FinalModels(s) :
                  /\ ~SelectedTwoVersions(m)
                  /\ currentVersionMap(m) = result.answer

\* the steps minimized before the pin, in the order of their minimization
PrePinSteps ==
    SelectSeqBy(steps, {st \in Range(steps) :
        \E i \in DOMAIN steps : steps[i] = st /\ ~AfterPin(i)})

\* what the assignment m costs on each step of stepList
CostVector(stepList, m) ==
    [i \in DOMAIN stepList |-> getWeightedSum(stepList[i], m)]

\* the cost vector v is less than w on some step and the same on all earlier
\* steps
LexLess(v, w) ==
    \E i \in DOMAIN v : v[i] < w[i] /\ \A j \in 1..(i - 1) : v[j] = w[j]

\* the least, in the order of the steps, of the cost vectors of the
\* assignments ms
LeastCostVector(stepList, ms) ==
    LET vecs == {CostVector(stepList, m) : m \in ms}
    IN  CHOOSE v \in vecs : \A w \in vecs : ~LexLess(w, v)

\* C15, amended: once the steps before the pin are minimized, at the pin or
\* at the assertion failure that replaces it, the optima recorded for them
\* are the least cost vector, in the order of the steps, over the assignments
\* that satisfy the dependency and constraint clauses: values fixed by the
\* input, whatever assignments the backend returned.
C15_DeterminismOfOptima ==
    pc = "pinned" \/ (pc = "done" /\ outcome.kind = "Error" /\ steps # <<>>) =>
        \E pre \in {PrePinSteps} :
            [i \in DOMAIN pre |-> pre[i].optimum]
                = LeastCostVector(pre, BaseModels)

\* an answer returned although another equally optimal assignment at the pin
\* leads to a different answer
C15_Witness ==
    /\ Returned
    /\ ~options.allAnswers
    /\ \E s \in PrePinModels :
          /\ ~SelectedTwoVersions(s)
          /\ \E m \in FinalModels(s) :
                /\ ~SelectedTwoVersions(m)
                /\ currentVersionMap(m) # result.answer
                /\ DOMAIN currentVersionMap(m) \subseteq
                      Range(analysis.reachablePackages)
    /\ DOMAIN result.answer \subseteq Range(analysis.reachablePackages)

\* the names major, minor, patch, rest of the steps of a group
VersionParts(base) ==
    <<base \o "_major", base \o "_minor", base \o "_patch", base \o "_rest">>

\* the order of minimization before the pin
OrderBeforePin ==
    <<"unknown_packages", "conflicts", "unanticipated_prereleases">>
    \o (IF input.allowIncompatibleUpdate
        THEN <<>> ELSE <<"previous_root_incompat">>)
    \o VersionParts("update")
    \o (IF input.allowIncompatibleUpdate
        THEN <<"previous_root_incompat">> ELSE <<>>)
    \o VersionParts("previous_root")
    \o <<"previous_indirect_incompat">> \o VersionParts("previous_indirect")
    \o VersionParts("new_root")

\* the order of minimization after the pin
OrderAfterPin == VersionParts("new_indirect") \o <<"total_packages">>

\* the names of the steps minimized so far, in order
StepNames == [i \in DOMAIN steps |-> steps[i].name]

\* the diagnostics (l.610-655) are running or have run
InDiagnostics ==
    \/ pc = "total_packages" /\ todo = <<>>
    \/ pc \in {"unknownChecked", "conflictsChecked", "diagnosed",
               "enumerating"}
    \/ pc = "done" /\ StepNames # <<>> /\ outcome.kind # "Error"

\* C16: the steps are minimized one after the other in the order of
\* getSolution, the pin between new_root_rest and new_indirect_major; no step
\* name is minimized twice; a step has no optimum until it is minimized and
\* keeps the optimum it got; when the diagnostics run, all steps have been
\* minimized, those they read included.
C16_StepOrder ==
    /\ [](/\ Len(StepNames) <= Len(OrderBeforePin \o OrderAfterPin)
          /\ StepNames = SubSeq(OrderBeforePin \o OrderAfterPin,
                                1, Len(StepNames))
          /\ \A i \in DOMAIN steps : steps[i].optimum # NoOptimum
          /\ \A i \in DOMAIN todo : todo[i].optimum = NoOptimum
          /\ pc = "pinned" => StepNames = OrderBeforePin
          /\ pc \in {"pinned", "new_indirect", "total_packages"} =>
                Len(StepNames) >= Len(OrderBeforePin)
          /\ Len(StepNames) > Len(OrderBeforePin) =>
                pc \in {"new_indirect", "total_packages", "unknownChecked",
                        "conflictsChecked", "diagnosed", "enumerating", "done"}
          /\ InDiagnostics => StepNames = OrderBeforePin \o OrderAfterPin)
    /\ [][/\ Len(steps') >= Len(steps)
          /\ Len(steps') <= Len(steps) + 1
          /\ SubSeq(steps', 1, Len(steps)) = steps]_vars

\* all steps minimized, previous_root_incompat after the update steps
C16_Witness ==
    /\ Returned
    /\ input.allowIncompatibleUpdate
    /\ StepNames = OrderBeforePin \o OrderAfterPin
    /\ stepsByName("previous_root_incompat").optimum > 0
    /\ stepsByName("total_packages").optimum > 0

\* the map getStepContributions(step) returns for the solution m, l.219-231:
\* a term that occurs several times keeps the weight of its last occurrence
ContributionMap(step, m) ==
    LET idx == {i \in DOMAIN step.terms :
                   WeightOf(step, i) # 0 /\ step.terms[i] \in m}
    IN  [t \in {step.terms[i] : i \in idx} |->
            WeightOf(step, CHOOSE i \in idx :
                /\ step.terms[i] = t
                /\ \A j \in idx : step.terms[j] = t => j <= i)]

RECURSIVE SumOf(_)
\* the sum of the values of the map f
SumOf(f) ==
    IF DOMAIN f = {} THEN 0
    ELSE LET k == CHOOSE x \in DOMAIN f : TRUE
         IN  f[k] + SumOf([x \in DOMAIN f \ {k} |-> f[x]])

\* the steps the diagnostics read
DiagnosticSteps ==
    {"unknown_packages", "conflicts", "unanticipated_prereleases",
     "previous_root_incompat"}

\* C17: at every point after a minimization, the pin included, the solution
\* at hand costs, on every step minimized so far, the optimum recorded for
\* that step; when the diagnostics run this holds of the four steps they
\* read, and the contributions getStepContributions reports for each of them
\* add up to its optimum.
C17_LockedOptima ==
    /\ \A i \in DOMAIN steps :
          getWeightedSum(steps[i], solution) = steps[i].optimum
    /\ InDiagnostics =>
          \A n \in DiagnosticSteps :
              /\ getWeightedSum(stepsByName(n), solution)
                    = stepsByName(n).optimum
              /\ SumOf(ContributionMap(stepsByName(n), solution))
                    = stepsByName(n).optimum

\* the diagnostics running on a solution that costs something on an early
\* step, after later steps were minimized and the pin applied
C17_Witness ==
    /\ InDiagnostics
    /\ logic.pins # {}
    /\ \E n \in DiagnosticSteps : stepsByName(n).optimum > 0
    /\ \E i \in DOMAIN steps : AfterPin(i) /\ steps[i].optimum > 0

\* C18: once the constructor and the root triage have passed, the clauses
\* the backend holds have an assignment at the first solve, after every
\* minimization and after the pin, the solution at hand being one; the error
\* "Unexpected unsatisfiability" is never raised.
C18_AlwaysSatisfiable ==
    /\ outcome.message # "Unexpected unsatisfiability"
    /\ pc = "constraintsAnalyzed" =>
          ModelsOf(Clauses(input, allowedVersions, analysis)) # {}
    /\ logic.created => solution \in logic.models
    /\ logic.created /\ todo # <<>> =>
          Extend(logic.models, Range(Head(todo).terms) \ logic.vars) # {}

\* all steps minimized and the pin applied although the constraints cannot
\* all be met
C18_Witness ==
    /\ pc = "total_packages"
    /\ todo = <<>>
    /\ outcome.kind = "none"
    /\ logic.pins # {}
    /\ solution \in logic.models
    /\ stepsByName("conflicts").optimum > 0

\* the packages whose version the pin locks, l.589-591
PinnedPackages ==
    {p \in DOMAIN pinMap : \/ isRootDependency(input, p)
                           \/ isInPreviousSolution(input, p)
                           \/ isUpgrading(input, p)}

\* the versions of package p that the assignment m selects
VersionsSelected(m, p) ==
    {pv.version : pv \in {x \in SelectedPVs(m) : x.package = p}}

\* C19: after the pin, every solution selects, of a package that is a root,
\* in the previous solution or being upgraded and had version v at the pin,
\* either no version or exactly v; the answer and every enumerated answer map
\* such a package to v if at all, and a root to exactly v.
C19_PinEffect ==
    /\ \A p \in PinnedPackages :
          VersionsSelected(solution, p) \subseteq {pinMap[p]}
    /\ Returned =>
          \A a \in {result.answer} \cup Range(result.allAnswers) :
              /\ \A p \in PinnedPackages \cap DOMAIN a : a[p] = pinMap[p]
              /\ \A p \in Range(input.dependencies) :
                    p \in DOMAIN a /\ p \in DOMAIN pinMap /\ a[p] = pinMap[p]

\* the dependencies of the allowed versions of package p, each with the
\* package version that declares it
AllowedDeps(p) ==
    UNION {{[from |-> pvVar(p, v), dep |-> d] :
               d \in Range(getDependencyMap(input.catalogCache, p, v))} :
           v \in Range(getVersions(input, allowedVersions, p))}

\* the known packages that an allowed version of a package of S requires by
\* a dependency that is not weak
KnownStrongTargets(S) ==
    {x.dep.package :
        x \in {y \in UNION {AllowedDeps(p) : p \in S} :
                  ~y.dep.isWeak /\ isKnownPackage(input, y.dep.package)}}

RECURSIVE KnownStrongClosure(_)
KnownStrongClosure(S) ==
    IF KnownStrongTargets(S) \subseteq S THEN S
    ELSE KnownStrongClosure(S \cup KnownStrongTargets(S))

\* the constraints that the dependencies, weak or not, of the allowed versions
\* of the packages of S put on known packages
DependencyConstraints(S) ==
    {[fromVar |-> x.from, toPackage |-> x.dep.package,
      vConstraint |-> x.dep.vc] :
        x \in {y \in UNION {AllowedDeps(p) : p \in S} :
                  isKnownPackage(input, y.dep.package)}}

\* C20: reachablePackages holds exactly the roots and the known packages
\* reached from them through dependencies, not weak, of allowed versions; a
\* known package that only weak dependencies name is not in it; and
\* analyzeConstraints has a constraint for every dependency, weak or not, of
\* every allowed version of a reachable package on a known package, and for
\* nothing else but the top-level constraints.
C20_Reachability ==
    /\ analysis.reachablePackages # <<>> =>
          Range(analysis.reachablePackages)
              = KnownStrongClosure(Range(input.dependencies))
    /\ pc = "constraintsAnalyzed" \/ logic.created =>
          {[fromVar |-> c.fromVar, toPackage |-> c.toPackage,
            vConstraint |-> c.vConstraint] :
              c \in {x \in Range(analysis.constraints) : x.fromVar # ""}}
          = DependencyConstraints(Range(analysis.reachablePackages))

\* the analyses done for roots that reach a package through a strong
\* dependency and constrain, by a weak one, a known package they do not reach
C20_Witness ==
    /\ pc = "constraintsAnalyzed"
    /\ Range(analysis.reachablePackages) # Range(input.dependencies)
    /\ \E c \in Range(analysis.constraints) :
          /\ c.fromVar # ""
          /\ isKnownPackage(input, c.toPackage)
          /\ c.toPackage \notin Range(analysis.reachablePackages)

\* the sequence s has no element twice
NoDuplicates(s) == \A i, j \in DOMAIN s : s[i] = s[j] => i = j

\* C21: analyzeReachability visits each package once, a root that an earlier
\* root requires included: no package version is twice in the requirers of
\* an unknown package, and no 'unknown package' error names a requirer twice.
C21_VisitedOnce ==
    /\ \A i \in DOMAIN analysis.unknownPackages :
          NoDuplicates(analysis.unknownPackages[i].requirers)
    /\ \A i \in DOMAIN errors :
          errors[i].kind = "unknown package" => NoDuplicates(errors[i].detail)

\* throwConflicts has run: the unknown-package check passed and the optimum
\* of conflicts is positive
ThrowConflictsRan ==
    /\ DiagnosticsReached
    /\ stepsByName("unknown_packages").optimum = 0
    /\ stepsByName("conflicts").optimum > 0

\* the constraints whose conflictVar the solution makes true
ConflictingConstraints ==
    {c \in Range(analysis.constraints) : c.conflictVar \in solution}

\* C22: when throwConflicts has run, every constraint whose conflictVar is
\* true in the final solution is on a package with a selected version among
\* getVersions(toPackage); 'Internal error: Version not found' and
\* 'Internal error: conflicts could not be explained' are not raised; there
\* is at least one conflict reason, and a constraint-solver error is raised.
C22_ConflictsExplained ==
    ThrowConflictsRan =>
        /\ \A c \in ConflictingConstraints :
              \E v \in Range(getVersions(input, allowedVersions, c.toPackage)) :
                  pvVar(c.toPackage, v) \in solution
        /\ outcome.message \notin
              {"Internal error: Version not found",
               "Internal error: conflicts could not be explained"}
        /\ \E i \in DOMAIN errors : errors[i].kind = "conflict"
        /\ outcome.kind = "ConstraintSolverError"

\* the diagnostics explained a conflict or a breaking change, which lists the
\* constraints on a package with the paths to their package versions
PathsAsked ==
    /\ DiagnosticsReached
    /\ stepsByName("unknown_packages").optimum = 0
    /\ \/ stepsByName("conflicts").optimum > 0
       \/ /\ ~input.allowIncompatibleUpdate
          /\ stepsByName("previous_root_incompat").optimum > 0

\* the package versions of the catalog of the input
CatalogPVs ==
    {pv \in AllPVs :
        pv.version \in Range(getPackageVersions(input.catalogCache, pv.package))}

\* what C23 says of the paths returned for pv on the solution m with version
\* map vm
WellFormedPaths(pv, paths, m, vm) ==
    IF pvVar(pv.package, pv.version) \notin m THEN paths = <<>>
    ELSE IF isRootDependency(input, pv.package) THEN paths = <<<<pv>>>>
    ELSE \A k \in DOMAIN paths :
            LET path == paths[k]
            IN  /\ path # <<>>
                /\ path[1] = pv
                /\ isRootDependency(input, path[Len(path)].package)
                /\ \A i, j \in DOMAIN path :
                      path[i].package = path[j].package => i = j
                /\ \A i \in DOMAIN path :
                      /\ pvVar(path[i].package, path[i].version) \in m
                      /\ path[i].version = vm[path[i].package]
                /\ \A i \in 1..(Len(path) - 1) :
                      /\ path[i + 1].package \in m
                      /\ hasDep(input, vm, path[i + 1].package,
                                path[i].package)

\* C23: on the solution the diagnostics explain, getPathsToPackageVersion
\* returns, for every package version of the catalog and whatever the order
\* of the keys of the version map: nothing if the package version is not
\* selected, the one path of the package version alone if its package is a
\* root dependency, and otherwise paths that start with it, end with the
\* selected version of a root dependency, have no package twice, hold only
\* selected package versions, each followed by a selected package whose
\* selected version has a dependency, weak or not, on its package.
C23_PathsWellFormed ==
    PathsAsked =>
        /\ ~SelectedTwoVersions(solution)
        /\ \A allPackages \in KeyOrders(solution) :
           \A pv \in CatalogPVs :
              WellFormedPaths(pv,
                  getPathsToPackageVersion(input, solution, allPackages, pv),
                  solution, currentVersionMap(solution))

RECURSIVE DiscoveredPaths(_, _, _, _)
\* the paths discovered for pv, in the order of their discovery: pv before
\* each path of each selected package, taken in the order allPackages from
\* i, that depends on the package of pv
DiscoveredPaths(m, allPackages, pv, i) ==
    IF i > Len(allPackages) THEN <<>>
    ELSE (IF /\ allPackages[i] # pv.package
             /\ allPackages[i] \in m
             /\ hasDep(input, currentVersionMap(m), allPackages[i], pv.package)
          THEN LET found == getPaths(input, m, currentVersionMap(m),
                               allPackages,
                               PackageAndVersion(allPackages[i],
                                   currentVersionMap(m)[allPackages[i]]),
                               {pv.package})
               IN  [k \in DOMAIN found |-> <<pv>> \o found[k]]
          ELSE <<>>)
         \o DiscoveredPaths(m, allPackages, pv, i + 1)

RECURSIVE RetainedIfNotLonger(_, _)
\* the paths of discovered that C24 retains: a path is retained if none is
\* retained yet or it is not longer than the shortest retained so far
RetainedIfNotLonger(discovered, retained) ==
    IF discovered = <<>> THEN retained
    ELSE RetainedIfNotLonger(Tail(discovered),
            IF \/ retained = <<>>
               \/ \A k \in DOMAIN retained :
                     Len(Head(discovered)) <= Len(retained[k])
            THEN Append(retained, Head(discovered))
            ELSE retained)

\* C24: for a selected package version whose package is no root dependency,
\* the paths getPathsToPackageVersion returns are the discovered paths
\* retained by the rule: retained if the list is empty or the path is not
\* longer than the shortest so far, paths tied with the shortest included.
C24_TiedPathsKept ==
    PathsAsked /\ ~SelectedTwoVersions(solution) =>
        \A allPackages \in KeyOrders(solution) :
        \A pv \in CatalogPVs :
            /\ pvVar(pv.package, pv.version) \in solution
            /\ ~isRootDependency(input, pv.package)
            => getPathsToPackageVersion(input, solution, allPackages, pv)
                  = RetainedIfNotLonger(
                        DiscoveredPaths(solution, allPackages, pv, 1), <<>>)

\* the constraints of analysis.constraints that are top-level constraints
TopLevelAnalyzed == {c \in Range(analysis.constraints) : c.fromVar = ""}

\* C25: once the constructor has passed, the constraint formula of every
\* top-level constraint is Logic.TRUE; once the step conflicts is minimized
\* no solution makes the conflictVar of a top-level constraint true; and a
\* conflict reason never names a top-level constraint as the one not
\* satisfied.
C25_TopLevelByFilter ==
    /\ (/\ pc # "new"
        /\ outcome.message # "No version satisfies top-level constraints")
       => \A i \in DOMAIN input.constraints :
             getConstraintFormula(input, allowedVersions,
                                  input.constraints[i].package,
                                  input.constraints[i].versionConstraint)
                = LogicTRUE
    /\ (\E i \in DOMAIN steps : steps[i].name = "conflicts")
       => \A c \in TopLevelAnalyzed : c.conflictVar \notin solution
    /\ \A i \in DOMAIN errors :
          errors[i].kind = "conflict" =>
             \A c \in TopLevelAnalyzed :
                 c.conflictVar \notin Range(errors[i].detail)

\* a conflict explained for an input with a top-level constraint on the
\* package in conflict, which the listing shows as coming from the top level
C25_Witness ==
    /\ pc = "done"
    /\ outcome.kind = "ConstraintSolverError"
    /\ \E i \in DOMAIN errors :
          /\ errors[i].kind = "conflict"
          /\ \E k \in DOMAIN errors[i].constraints :
                /\ errors[i].constraints[k].path = <<"top level">>
                /\ errors[i].constraints[k].constraint
                      \in {c.conflictVar : c \in TopLevelAnalyzed}

\* the dependencies, weak or not, that an allowed version of a reachable
\* package has on a package the catalog does not know
UnknownDeps ==
    {d \in UNION {AllowedDeps(p) : p \in Range(analysis.reachablePackages)} :
        ~isKnownPackage(input, d.dep.package)}

StrongUnknownDeps == {d \in UnknownDeps : ~d.dep.isWeak}

UnknownStepRecorded == \E i \in DOMAIN steps : steps[i].name = "unknown_packages"

\* C26: a weak dependency on an unknown package never causes an "unknown
\* package" error.  Every unknown target of a dependency, weak or not, is
\* recorded in analysis.unknownPackages with its requirer and is a term of the
\* unknown_packages step; an unknown package occurs in a clause only as the
\* consequence of a version that depends on it strongly; when every dependency
\* on an unknown package is weak the optimum of unknown_packages is 0; and an
\* "unknown package" reason is reported only when every assignment satisfying
\* the clauses selects a version with a strong dependency on an unknown
\* package, and names a package that a selected version strongly requires.
C26_WeakUnknownHarmless ==
    /\ \A d \in UnknownDeps :
          \E i \in DOMAIN analysis.unknownPackages :
             /\ analysis.unknownPackages[i].package = d.dep.package
             /\ d.from \in Range(analysis.unknownPackages[i].requirers)
    /\ UnknownStepRecorded =>
          /\ \A d \in UnknownDeps :
                d.dep.package \in Range(stepsByName("unknown_packages").terms)
          /\ StrongUnknownDeps = {} => stepsByName("unknown_packages").optimum = 0
    /\ analysis.reachablePackages # <<>> =>
          \A f \in Clauses(input, allowedVersions, analysis) :
             \A u \in {p \in VarsOf(f) \cap AllPackages : ~isKnownPackage(input, p)} :
                \E d \in StrongUnknownDeps : f = LogicImplies(d.from, u)
    /\ \A i \in DOMAIN errors :
          errors[i].kind = "unknown package" =>
             /\ \A m \in BaseModels : \E d \in StrongUnknownDeps : d.from \in m
             /\ \E d \in StrongUnknownDeps :
                   /\ d.dep.package = errors[i].subject
                   /\ d.from \in Range(errors[i].detail)

\* an answer that selects a version with a weak dependency on an unknown
\* package, and one that avoids a version with a strong dependency on one
C26_Witness ==
    /\ Returned
    /\ stepsByName("unknown_packages").optimum = 0
    /\ \E d \in UnknownDeps :
          /\ d.dep.isWeak
          /\ d.from \in solution
          /\ d.dep.package \in Range(stepsByName("unknown_packages").terms)
    /\ StrongUnknownDeps # {}

====
